---- MODULE Spec2Model ----
(***************************************************************************)
(* A model of the stateful decision layer of rosemary:                     *)
(*                                                                         *)
(*  - the Phase-1 per-symbol position lifecycle loop (position, days_left) *)
(*    of backtest_mean_reversion.py, backtest_walkforward_meanrev.py,      *)
(*    backtest_walkforward.py and backtest_baseline_trend_vol.py;          *)
(*  - the hysteretic regime classifier of meta_allocator_hysteresis_v1.py, *)
(*    its state series and the two allocators (hysteretic and stateless);  *)
(*  - vol targeting, apply_vol_targeting of risk_targeting_v1.py;          *)
(*  - inverse-vol weights, compute_inverse_vol_weights of                  *)
(*    portfolio_constructor_v1.py, and the portfolio built from them       *)
(*    (align_asset_returns, build_portfolio_raw_returns);                  *)
(*  - the soft blender of meta_allocator_soft_v1.py;                       *)
(*  - the strategy gates of strategy_gates_v1.py and the sleeve interface  *)
(*    finalize_strategy_output of strategy_interface_v1.py.                *)
(*                                                                         *)
(* Each component has its own specification (SpecLifecycle,                *)
(* SpecHysteresis, SpecMeta, SpecVol, SpecWeights, SpecPortfolio,          *)
(* SpecSoft, SpecColumns, SpecVeto, SpecSymbols, SpecGenerators,             *)
(* SpecWindow); the variables of the other components stay as constructed. *)
(*                                                                         *)
(* Numbers.  Returns and costs are integers in basis points (1e-4).  A     *)
(* position is 0, 1 or prediction / pred_std; pred_std is one irrational   *)
(* constant per run, so a quantity is kept exactly as the pair             *)
(*     [w |-> a, f |-> b]   standing for   a + b / pred_std.               *)
(* Floating-point rounding is not modelled.                                *)
(***************************************************************************)
EXTENDS Integers, Sequences, FiniteSets, TLC

VARIABLES
    test,        \* lifecycle: the input table of one symbol, in date order
    cfg,         \* lifecycle: [variant, hold_days]
    thr,         \* lifecycle: thresholds derived from the table before the loop
    i,           \* lifecycle: number of rows the loop has processed
    position,    \* lifecycle: the loop's position
    days_left,   \* lifecycle: the loop's days_left
    bt,          \* lifecycle: the records appended so far
    params,      \* classifier: the threshold table p
    regime_row,  \* classifier: the row of the last decide call
    prev_state,  \* classifier: the prev_state argument of the last call
    state,       \* classifier: the result of the last call
    prev,        \* classifier: build_state_series' carried state
    states,      \* classifier: build_state_series' list of states
    warmup,      \* classifier: per date, whether a feature was undefined
    zone,        \* classifier: per date, the dead zones the row lies in
    meta_call,   \* allocator: [regime_df, trend_out, meanrev_out] of the call
    state_series,\* allocator: result of build_state_series_hysteresis_v1
    merged,      \* allocator: result of build_meta_raw_returns[_hysteresis_v1]
    vol_call,    \* vol targeting: the arguments of apply_vol_targeting
    vol_df,      \* vol targeting: the frame it returns
    weight_call, \* weights: the arguments of compute_inverse_vol_weights
    weights,     \* weights: the frame it returns
    port_call,   \* portfolio: [asset_daily, lookback, max_weight] of the run
    port,        \* portfolio: result of build_portfolio_raw_returns
    soft_call,   \* soft blender: the arguments of the call
    soft_out,    \* soft blender: what the call returns
    gate_call,   \* gates: [columns, regime_df, p] of build_strategy_gates_v1
    gate_out,    \* gates: the frame it returns, or the error it raises
    fin_call,    \* strategy interface: the arguments of finalize_strategy_output
    fin_out,     \* strategy interface: the frame it returns, or the error
    sym_call,    \* symbols: [tables, order, cfg, thr] of a run over several symbols
    sym_run,     \* symbols: [k, i, position, days_left, records] of its loops
    gen_call,    \* generators: [can_enter, hold_days] of generate_*_positions
    gen_out,     \* generators: [pos, hold_remaining, is_entry] of its loop
    win_call,    \* windows: the arguments of two calls that differ in one row
    win_out,     \* windows: [first, second], what the two calls return
    pc           \* which routine runs, and where it is

lifeVars == <<test, cfg, thr, i, position, days_left, bt>>
hystVars == <<params, regime_row, prev_state, state, prev, states, warmup, zone>>
metaVars == <<meta_call, state_series, merged>>
volVars == <<vol_call, vol_df>>
portVars == <<weight_call, weights>>
blendVars == <<port_call, port>>
softVars == <<soft_call, soft_out>>
gateVars == <<gate_call, gate_out>>
finVars == <<fin_call, fin_out>>
symVars == <<sym_call, sym_run>>
genVars == <<gen_call, gen_out>>
winVars == <<win_call, win_out>>
moreVars == <<symVars, genVars, winVars>>
restVars == <<blendVars, softVars, gateVars, finVars, moreVars>>
vars == <<lifeVars, hystVars, metaVars, volVars, portVars, restVars, pc>>

\* The components that a specification does not run stay as constructed.
MetaIdle ==
    /\ meta_call = [regime_df |-> <<>>, trend_out |-> <<>>, meanrev_out |-> <<>>]
    /\ state_series = <<>>
    /\ merged = <<>>
VolIdle ==
    /\ vol_call = [raw_ret |-> <<>>, target_vol_annual |-> 0,
                   lookback |-> 1, max_leverage |-> 0]
    /\ vol_df = <<>>
PortIdle ==
    /\ weight_call = [ret_wide |-> <<>>, lookback |-> 1,
                      max_weight |-> [none |-> TRUE, v |-> 0]]
    /\ weights = <<>>
BlendIdle ==
    /\ port_call = [asset_daily |-> [A |-> <<>>, B |-> <<>>, C |-> <<>>],
                    lookback |-> 1, max_weight |-> [none |-> TRUE, v |-> 0]]
    /\ port = <<>>
SoftIdle ==
    /\ soft_call = [regime_df |-> <<>>, trend_out |-> <<>>, meanrev_out |-> <<>>,
                    gamma |-> 1]
    /\ soft_out = <<>>
GateIdle ==
    /\ gate_call = [columns |-> {}, regime_df |-> <<>>,
                    p |-> [max_vol_20_global |-> 0, trend_min_mom60 |-> 0,
                           mr_max_abs_mom60 |-> 0]]
    /\ gate_out = <<>>
FinIdle ==
    /\ fin_call = [columns |-> {}, df |-> <<>>, strategy_name |-> "",
                   cost_per_side_bps |-> 0]
    /\ fin_out = <<>>
SymIdle ==
    /\ sym_call = [tables |-> <<>>, order |-> <<>>]
    /\ sym_run = <<>>
GenIdle ==
    /\ gen_call = [can_enter |-> <<>>, hold_days |-> 0]
    /\ gen_out = [pos |-> <<>>, hold_remaining |-> 0, is_entry |-> <<>>]
WinIdle ==
    /\ win_call = [first |-> <<>>, second |-> <<>>, lookback |-> 1]
    /\ win_out = [first |-> <<>>, second |-> <<>>]
MoreIdle == SymIdle /\ GenIdle /\ WinIdle
RestIdle == BlendIdle /\ SoftIdle /\ GateIdle /\ FinIdle /\ MoreIdle

(***************************************************************************)
(* Bounds of the model.                                                    *)
(***************************************************************************)
MaxRows == 4
MaxHold == 2
MaxRegimeRows == 3

(***************************************************************************)
(* Program constants.                                                      *)
(***************************************************************************)
CostBps == 5
OversoldThreshBps == 200
VolPctlMeanrev == 80
VolPctlTrendVol == 60
ScenarioHoldDays == 3

(***************************************************************************)
(* Exact quantities a + b / pred_std.                                      *)
(***************************************************************************)
Val(a, b) == [w |-> a, f |-> b]
Zero == Val(0, 0)
One == Val(1, 0)
Scale(p, k) == Val(p.w * k, p.f * k)
Plus(p, q) == Val(p.w + q.w, p.f + q.f)
Minus(p, q) == Val(p.w - q.w, p.f - q.f)
\* The quantities of a run have w >= 0 and f >= 0 or w <= 0 and f <= 0 when
\* they are positions or costs, and pred_std > 0 whenever f # 0.
IsZero(p) == p.w = 0 /\ p.f = 0
IsPositive(p) == (p.w > 0 /\ p.f >= 0) \/ (p.w >= 0 /\ p.f > 0)

(***************************************************************************)
(* Thresholds derived from the whole input table before the loop.          *)
(***************************************************************************)
RECURSIVE SumOver(_, _)
SumOver(s, k) == IF k = 0 THEN 0 ELSE s[k] + SumOver(s, k - 1)

Column(table, name) == [k \in 1..Len(table) |-> table[k][name]]

\* The k-th smallest (1-based) element of a non-empty sequence of integers.
KthSmallest(s, k) ==
    CHOOSE v \in {s[j] : j \in 1..Len(s)} :
        /\ Cardinality({j \in 1..Len(s) : s[j] < v}) < k
        /\ Cardinality({j \in 1..Len(s) : s[j] <= v}) >= k

\* 100 x Series.quantile(pct / 100) with linear interpolation: the rank
\* (n - 1) * pct / 100 falls between two order statistics.
Quantile100(s, pct) ==
    LET n == Len(s)
        rank == (n - 1) * pct
        lo == rank \div 100
        frac == rank % 100
        a == KthSmallest(s, lo + 1)
        b == IF frac = 0 THEN a ELSE KthSmallest(s, lo + 2)
    IN  100 * a + frac * (b - a)

\* Series.std() (ddof = 1) of the predictions, kept as n and
\* q = n * sum(x^2) - sum(x)^2, so that pred_std^2 = q / (n * (n - 1)).
\* pred_std is undefined (NaN) for n < 2.
PredStats(s) ==
    LET n == Len(s)
        sq == [k \in 1..n |-> s[k] * s[k]]
    IN  [n |-> n, q |-> n * SumOver(sq, n) - SumOver(s, n) * SumOver(s, n)]

VolPctl(variant) ==
    IF variant = "trendvol" THEN VolPctlTrendVol ELSE VolPctlMeanrev

Thresholds(table, c) ==
    [vol100 |-> IF Len(table) = 0 THEN 0
                ELSE Quantile100(Column(table, "rvol_10"), VolPctl(c.variant)),
     pred   |-> PredStats(Column(table, "prediction"))]

StdDefined(th) == th.pred.n >= 2
StdPositive(th) == StdDefined(th) /\ th.pred.q > 0

(***************************************************************************)
(* The gates of one row.                                                   *)
(***************************************************************************)
VolOk(row, th) == row.rvol_10 * 100 <= th.vol100
Oversold(row) == row.ret_5d < -OversoldThreshBps
TrendOk(row) == row.ret_20d > 0
\* prediction > 0.5 * pred_std; a comparison with NaN is false.
AboveThreshold(row, th) ==
    /\ StdDefined(th)
    /\ row.prediction > 0
    /\ 4 * row.prediction * row.prediction * th.pred.n * (th.pred.n - 1) > th.pred.q

Gates(row, th, c) ==
    CASE c.variant = "meanrev"     -> VolOk(row, th) /\ Oversold(row)
      [] c.variant = "walkforward" -> TrendOk(row) /\ AboveThreshold(row, th)
      [] c.variant = "trendvol"    -> TrendOk(row) /\ VolOk(row, th) /\ AboveThreshold(row, th)

\* min(prediction / pred_std, 1.0); with pred_std = 0 the quotient is +inf.
MinSizedNoCap(row, th) == Val(0, row.prediction)
MinSized(row, th) ==
    IF row.prediction * row.prediction * th.pred.n * (th.pred.n - 1) >= th.pred.q
    THEN One
    ELSE Val(0, row.prediction)

EntrySize(row, th, c) ==
    CASE c.variant = "meanrev"     -> One
      [] c.variant = "walkforward" -> IF StdPositive(th) THEN MinSized(row, th) ELSE Zero
      [] c.variant = "trendvol"    -> MinSized(row, th)

(***************************************************************************)
(* One pass of the loop body.                                              *)
(***************************************************************************)
\* if days_left > 0: days_left -= 1
DecrementUnguarded(dl) == dl - 1
Decrement(dl) == IF dl > 0 THEN dl - 1 ELSE dl

EntryCond(pos, gates) == IsZero(pos) /\ gates

\* The elif: reached only when the entry branch was not taken.
ExitCondSecondIf(entered, pos, dl) == IsPositive(pos) /\ dl = 0
ExitCond(entered, pos, dl) == ~entered /\ IsPositive(pos) /\ dl = 0

\* trade_cost = position * cost on exit, read before position is zeroed.
ExitCostAfterZeroing(pos) == Scale(Zero, CostBps)
ExitCost(pos) == Scale(pos, CostBps)

GrossRet(pos, row) == Scale(pos, row.y_ret_1d)

NetRetAddsCost(gross, cost) == Plus(gross, cost)
NetRet(gross, cost) == Minus(gross, cost)

LifeStep(st, row, th, c) ==
    LET dl1     == Decrement(st.days_left)
        gates   == Gates(row, th, c)
        entered == EntryCond(st.position, gates)
        size    == EntrySize(row, th, c)
        pos1    == IF entered THEN size ELSE st.position
        dl2     == IF entered THEN c.hold_days ELSE dl1
        exited  == ExitCond(entered, pos1, dl2)
        cost    == IF exited THEN ExitCost(pos1)
                   ELSE IF entered THEN Scale(pos1, CostBps) ELSE Zero
        pos2    == IF exited THEN Zero ELSE pos1
    IN  [position   |-> pos2,
         days_left  |-> dl2,
         trade_cost |-> cost,
         net_ret    |-> NetRet(GrossRet(pos2, row), cost),
         gates      |-> gates,
         is_entry   |-> entered,
         is_exit    |-> exited]

\* The loop state after the first k rows of table, with thresholds th.
RECURSIVE RunTo(_, _, _, _)
RunTo(table, th, c, k) ==
    IF k = 0 THEN [position |-> Zero, days_left |-> 0]
    ELSE LifeStep(RunTo(table, th, c, k - 1), table[k], th, c)

(***************************************************************************)
(* Inputs.                                                                 *)
(***************************************************************************)
Variants == {"meanrev", "walkforward", "trendvol"}

\* Forward returns of the scenario (bps), repeated.
FwdRet == <<100, 200, -100, 300, 0>>
YRet(k) == FwdRet[((k - 1) % Len(FwdRet)) + 1]

RvolVals == {1, 2}
Ret5Vals == {-300, -200}
Ret20Vals == {-100, 100}
PredVals == {0, 1, 3}

\* The columns a variant does not read are held at one value; the trend gate
\* of the trend-and-volatility script, the same test as in
\* run_strategy_on_test, is held true.
GateRows(variant) ==
    CASE variant = "meanrev" ->
            [rvol_10 : RvolVals, ret_5d : Ret5Vals, ret_20d : {100}, prediction : {0}]
      [] variant = "walkforward" ->
            [rvol_10 : {1}, ret_5d : {-200}, ret_20d : Ret20Vals, prediction : PredVals]
      [] variant = "trendvol" ->
            [rvol_10 : RvolVals, ret_5d : {-200}, ret_20d : {100}, prediction : PredVals]

WithReturns(g) ==
    [k \in 1..Len(g) |->
        [rvol_10 |-> g[k].rvol_10, ret_5d |-> g[k].ret_5d, ret_20d |-> g[k].ret_20d,
         prediction |-> g[k].prediction, y_ret_1d |-> YRet(k)]]

Tables(variant) ==
    {WithReturns(g) : g \in UNION {[1..n -> GateRows(variant)] : n \in 0..MaxRows}}

\* spec.md section 8: entry signal true only at day 0.
ScenarioTable ==
    WithReturns([k \in 1..Len(FwdRet) |->
        [rvol_10 |-> 1, ret_5d |-> IF k = 1 THEN -300 ELSE -200,
         ret_20d |-> 100, prediction |-> 0]])
ScenarioCfg == [variant |-> "meanrev", hold_days |-> ScenarioHoldDays]

(***************************************************************************)
(* The hysteretic regime classifier.  Features and thresholds are integers *)
(* in units of 0.001; an undefined (NaN) feature is its own kind of value, *)
(* and every comparison with it is false.                                  *)
(***************************************************************************)
TREND == "TREND"
MEANREV == "MEANREV"
CASH == "CASH"

DEFAULT_HYST_PARAMS ==
    [trend_enter_mom60 |-> 0,
     trend_enter_mom20 |-> -5,
     trend_exit_mom60 |-> -20,
     trend_exit_mom20 |-> -20,
     mr_enter_mom20 |-> -25,
     mr_enter_dd60 |-> -30,
     mr_enter_vol20_max |-> 400,
     mr_exit_mom20 |-> -5,
     mr_exit_dd60 |-> -10,
     mr_exit_vol20_max |-> 450]

NaN == [nan |-> TRUE, v |-> 0]
Num(x) == [nan |-> FALSE, v |-> x]
isna(x) == x.nan
Gt(x, c) == ~x.nan /\ x.v > c
Lt(x, c) == ~x.nan /\ x.v < c

AnyUndefinedButDrawdown(row) ==
    isna(row.mom_60) \/ isna(row.mom_20) \/ isna(row.vol_20)
AnyUndefined(row) ==
    isna(row.mom_60) \/ isna(row.mom_20) \/ isna(row.vol_20) \/ isna(row.drawdown_60)

trend_enter_mom60_only(row, p) == Gt(row.mom_60, p.trend_enter_mom60)
trend_enter(row, p) ==
    Gt(row.mom_60, p.trend_enter_mom60) /\ Gt(row.mom_20, p.trend_enter_mom20)

trend_exit_inclusive(row, p) ==
    \/ (~row.mom_60.nan /\ row.mom_60.v <= p.trend_exit_mom60)
    \/ (~row.mom_20.nan /\ row.mom_20.v <= p.trend_exit_mom20)
trend_exit_both(row, p) ==
    Lt(row.mom_60, p.trend_exit_mom60) /\ Lt(row.mom_20, p.trend_exit_mom20)
trend_exit(row, p) ==
    Lt(row.mom_60, p.trend_exit_mom60) \/ Lt(row.mom_20, p.trend_exit_mom20)

mr_enter(row, p) ==
    /\ Lt(row.mom_20, p.mr_enter_mom20)
    /\ Lt(row.drawdown_60, p.mr_enter_dd60)
    /\ Lt(row.vol_20, p.mr_enter_vol20_max)

mr_exit_without_vol(row, p) ==
    Gt(row.mom_20, p.mr_exit_mom20) \/ Gt(row.drawdown_60, p.mr_exit_dd60)
mr_exit(row, p) ==
    \/ Gt(row.mom_20, p.mr_exit_mom20)
    \/ Gt(row.drawdown_60, p.mr_exit_dd60)
    \/ Gt(row.vol_20, p.mr_exit_vol20_max)

decide_state_meanrev_first(row, prev_st, p) ==
    IF AnyUndefined(row) THEN CASH
    ELSE IF prev_st = TREND THEN
        IF trend_exit(row, p)
        THEN (IF mr_enter(row, p) THEN MEANREV ELSE CASH)
        ELSE TREND
    ELSE IF prev_st = MEANREV THEN
        IF mr_exit(row, p)
        THEN (IF trend_enter(row, p) THEN TREND ELSE CASH)
        ELSE MEANREV
    ELSE IF mr_enter(row, p) THEN MEANREV
    ELSE IF trend_enter(row, p) THEN TREND
    ELSE CASH
\* if any of the four features is NaN: return "CASH"
decide_state_holding_over_gaps(row, prev_st, p) ==
    IF AnyUndefined(row) THEN prev_st
    ELSE IF prev_st = TREND THEN
        IF trend_exit(row, p)
        THEN (IF mr_enter(row, p) THEN MEANREV ELSE CASH)
        ELSE TREND
    ELSE IF prev_st = MEANREV THEN
        IF mr_exit(row, p)
        THEN (IF trend_enter(row, p) THEN TREND ELSE CASH)
        ELSE MEANREV
    ELSE IF trend_enter(row, p) THEN TREND
    ELSE IF mr_enter(row, p) THEN MEANREV
    ELSE CASH
decide_state_hysteresis_v1(row, prev_st, p) ==
    IF AnyUndefined(row) THEN CASH
    ELSE IF prev_st = TREND THEN
        IF trend_exit(row, p)
        THEN (IF mr_enter(row, p) THEN MEANREV ELSE CASH)
        ELSE TREND
    ELSE IF prev_st = MEANREV THEN
        IF mr_exit(row, p)
        THEN (IF trend_enter(row, p) THEN TREND ELSE CASH)
        ELSE MEANREV
    ELSE IF trend_enter(row, p) THEN TREND
    ELSE IF mr_enter(row, p) THEN MEANREV
    ELSE CASH

(***************************************************************************)
(* Classifier inputs: values on, between and beyond the thresholds.        *)
(***************************************************************************)
\* A threshold table whose exit thresholds are tighter than its entry ones.
SWAPPED_HYST_PARAMS ==
    [trend_enter_mom60 |-> -20,
     trend_enter_mom20 |-> -20,
     trend_exit_mom60 |-> 0,
     trend_exit_mom20 |-> -5,
     mr_enter_mom20 |-> -5,
     mr_enter_dd60 |-> -10,
     mr_enter_vol20_max |-> 450,
     mr_exit_mom20 |-> -25,
     mr_exit_dd60 |-> -30,
     mr_exit_vol20_max |-> 400]
ParamSets == {DEFAULT_HYST_PARAMS, SWAPPED_HYST_PARAMS}

Feature(vals) == {NaN} \cup {Num(x) : x \in vals}
RegimeRows ==
    [mom_60 : Feature({-30, -20, -10, 0, 10}),
     mom_20 : Feature({-30, -25, -20, -10, -5, 0}),
     vol_20 : Feature({300, 400, 450, 500}),
     drawdown_60 : Feature({-40, -30, -10, 0})]
\* Every feature of the row has a value.
RowDefined(row) ==
    \A name \in {"mom_60", "mom_20", "vol_20", "drawdown_60"} : ~row[name].nan
\* The bands between the default exit and entry thresholds, ends included.
InTrendDeadZone(row) ==
    /\ RowDefined(row)
    /\ row.mom_60.v \in -20..0
    /\ row.mom_20.v \in -20..-5
InMeanrevDeadZone(row) ==
    /\ RowDefined(row)
    /\ row.mom_20.v \in -25..-5
    /\ row.drawdown_60.v \in -30..-10
    /\ row.vol_20.v \in 400..450
\* decide_state_hysteresis_v1 takes any string as prev_state.
PrevStates == {TREND, MEANREV, CASH, "OTHER"}

(***************************************************************************)
(* The classifier as a state machine: direct calls of the transition       *)
(* function, and the loop of build_state_series_hysteresis_v1.             *)
(***************************************************************************)
NoRow == [mom_60 |-> NaN, mom_20 |-> NaN, vol_20 |-> NaN, drawdown_60 |-> NaN]

HystStart(p, mode) ==
    /\ params = p
    /\ regime_row = NoRow
    /\ prev_state = CASH
    /\ state = CASH
    /\ prev = CASH
    /\ states = <<>>
    /\ warmup = <<>>
    /\ zone = <<>>
    /\ pc = mode

HystIdle ==
    /\ params = DEFAULT_HYST_PARAMS
    /\ regime_row = NoRow
    /\ prev_state = CASH
    /\ state = CASH
    /\ prev = CASH
    /\ states = <<>>
    /\ warmup = <<>>
    /\ zone = <<>>

LifeIdle ==
    /\ test = <<>>
    /\ cfg = [variant |-> "meanrev", hold_days |-> 0]
    /\ thr = Thresholds(<<>>, [variant |-> "meanrev", hold_days |-> 0])
    /\ i = 0
    /\ position = Zero
    /\ days_left = 0
    /\ bt = <<>>


(***************************************************************************)
(* The lifecycle routine as a state machine.                               *)
(***************************************************************************)
LifeStart(t, c) ==
    /\ test = t
    /\ cfg = c
    /\ thr = Thresholds(t, c)
    /\ i = 0
    /\ position = Zero
    /\ days_left = 0
    /\ bt = <<>>
    /\ pc = "loop"

InitLifecycle ==
    /\ \/ \E v \in Variants, h \in 0..MaxHold :
            \E t \in Tables(v) : LifeStart(t, [variant |-> v, hold_days |-> h])
       \/ LifeStart(ScenarioTable, ScenarioCfg)
    /\ HystIdle
    /\ MetaIdle /\ VolIdle /\ PortIdle /\ RestIdle

ProcessRow ==
    /\ pc = "loop"
    /\ i < Len(test)
    /\ LET r == LifeStep([position |-> position, days_left |-> days_left],
                         test[i + 1], thr, cfg)
       IN  /\ position' = r.position
           /\ days_left' = r.days_left
           /\ bt' = Append(bt, r)
    /\ i' = i + 1
    /\ UNCHANGED <<test, cfg, thr, pc, hystVars, metaVars, volVars, portVars, restVars>>

\* bt = pd.DataFrame(records): a frame built from no record has no columns.
DataFrameColumns(records) ==
    IF Len(records) = 0 THEN {} ELSE {"date", "symbol", "position", "net_ret"}

\* bt.groupby("date", as_index=False)["net_ret"].mean()
groupby_date(records) ==
    IF "date" \in DataFrameColumns(records) THEN "done" ELSE "KeyError"

\* model.predict(test[features]) of the sized routines refuses a table of no
\* rows; the fixed-size routine reaches the groupby.
Outcome(c, table, records) ==
    IF c.variant # "meanrev" /\ Len(table) = 0 THEN "ValueError"
    ELSE groupby_date(records)

FinishRun ==
    /\ pc = "loop"
    /\ i = Len(test)
    /\ pc' = Outcome(cfg, test, bt)
    /\ UNCHANGED <<lifeVars, hystVars, metaVars, volVars, portVars, restVars>>

NextLifecycle == ProcessRow \/ FinishRun

SpecLifecycle == InitLifecycle /\ [][NextLifecycle]_vars

(***************************************************************************)
(* Reading the records.                                                    *)
(***************************************************************************)
Prefix(table, t) == SubSeq(table, 1, t)
PrevPos(k) == IF k = 1 THEN Zero ELSE bt[k - 1].position
HasEntryBefore(k) == \E e \in 1..(k - 1) : bt[e].is_entry
\* The entry of the trade that is open just before date k.
LastEntryBefore(k) ==
    CHOOSE e \in 1..(k - 1) :
        bt[e].is_entry /\ \A j \in (e + 1)..(k - 1) : ~bt[j].is_entry
RECURSIVE CostFromTo(_, _)
CostFromTo(a, b) ==
    IF a > b THEN Zero ELSE Plus(bt[b].trade_cost, CostFromTo(a, b - 1))
Sized == cfg.variant \in {"walkforward", "trendvol"}
\* 0 <= a + b / pred_std <= 1 for the quantities a position can be.
InUnit(p) ==
    /\ p.w \in {0, 1}
    /\ p.f >= 0
    /\ p.f > 0 => /\ p.w = 0
                  /\ StdPositive(thr)
                  /\ p.f * p.f * thr.pred.n * (thr.pred.n - 1) <= thr.pred.q

(***************************************************************************)
(* C1.  Holding period: after an entry at date t with hold_days = h >= 1   *)
(* and at least h further rows, position is the entry's size, non-zero and *)
(* unchanged, on dates t..t+h-1 and exactly 0 on date t+h.                 *)
(***************************************************************************)
C1_HoldingPeriod ==
    \A t \in 1..Len(bt) :
        (bt[t].is_entry /\ cfg.hold_days >= 1 /\ Len(test) >= t + cfg.hold_days)
        => \A k \in t..Len(bt) :
              /\ k <= t + cfg.hold_days - 1
                   => (bt[k].position = bt[t].position /\ IsPositive(bt[k].position))
              /\ k = t + cfg.hold_days => IsZero(bt[k].position)

\* What the loop does keep: the holding period of every entry of non-zero
\* size.  The entries of size 0 are those of run_strategy_on_test with
\* pred_std = 0.
HoldingPeriodOfNonZeroEntry ==
    \A t \in 1..Len(bt) :
        (bt[t].is_entry /\ IsPositive(bt[t].position)
            /\ cfg.hold_days >= 1 /\ Len(test) >= t + cfg.hold_days)
        => \A k \in t..Len(bt) :
              /\ k <= t + cfg.hold_days - 1 => bt[k].position = bt[t].position
              /\ k = t + cfg.hold_days => IsZero(bt[k].position)
ZeroSizeEntryOnlyWithoutSpread ==
    \A t \in 1..Len(bt) :
        (bt[t].is_entry /\ IsZero(bt[t].position))
        => (cfg.variant = "walkforward" /\ ~StdPositive(thr))

(***************************************************************************)
(* C2.  No lookahead: the position decided at date t is the position the   *)
(* routine decides at t when every row after t is deleted from its input,  *)
(* thresholds included.                                                    *)
(***************************************************************************)
C2_NoLookahead ==
    \A t \in 1..Len(bt) :
        bt[t].position =
            RunTo(Prefix(test, t), Thresholds(Prefix(test, t), cfg), cfg, t).position

(***************************************************************************)
(* C3.  Net return of a date: p*r - p*cost on an entry date, p*r on a held *)
(* date, -p*cost on an exit date (p the size held before the exit), 0 on a *)
(* flat date; and the scenario of spec.md section 8.                       *)
(***************************************************************************)
C3_NetReturn ==
    /\ \A k \in 1..Len(bt) :
          LET r == bt[k]
              y == test[k].y_ret_1d
          IN  /\ r.is_entry
                   => r.net_ret = Minus(Scale(r.position, y), Scale(r.position, CostBps))
              /\ (~r.is_entry /\ ~r.is_exit /\ IsPositive(r.position))
                   => r.net_ret = Scale(r.position, y)
              /\ r.is_exit
                   => r.net_ret = Minus(Zero, Scale(PrevPos(k), CostBps))
              /\ (~r.is_entry /\ ~r.is_exit /\ IsZero(r.position))
                   => r.net_ret = Zero
    /\ (test = ScenarioTable /\ cfg = ScenarioCfg /\ pc = "done")
          => /\ [k \in 1..Len(bt) |-> bt[k].position] = <<One, One, One, Zero, Zero>>
             /\ [k \in 1..Len(bt) |-> bt[k].net_ret]
                   = <<Val(95, 0), Val(200, 0), Val(-100, 0), Val(-5, 0), Zero>>

C3_Witness ==
    /\ test = ScenarioTable /\ cfg = ScenarioCfg /\ pc = "done"
    /\ bt[1].is_entry /\ bt[4].is_exit

(***************************************************************************)
(* C4.  Cost symmetry: the costs charged from an entry through its exit    *)
(* sum to 2 * p * cost_rate, p the entry's size, and no cost is charged on *)
(* a date strictly between the two.                                        *)
(***************************************************************************)
C4_CostSymmetry ==
    \A k \in 1..Len(bt) :
        bt[k].is_exit
        => /\ HasEntryBefore(k)
           /\ LET e == LastEntryBefore(k)
              IN  /\ CostFromTo(e, k) = Scale(bt[e].position, 2 * CostBps)
                  /\ \A j \in (e + 1)..(k - 1) : IsZero(bt[j].trade_cost)

\* A round trip of a fractional position held over several dates.
C4_Witness ==
    \E k \in 1..Len(bt) :
        /\ bt[k].is_exit
        /\ HasEntryBefore(k)
        /\ LastEntryBefore(k) + 1 < k
        /\ bt[LastEntryBefore(k)].position.f > 0

(***************************************************************************)
(* C5.  At most one of entry and exit fires on a date; entry fires only    *)
(* from position = 0 and exit only from position > 0; a date that exits    *)
(* does not re-enter, even with every entry gate true.                     *)
(***************************************************************************)
C5_OneOfEntryExit ==
    \A k \in 1..Len(bt) :
        /\ ~(bt[k].is_entry /\ bt[k].is_exit)
        /\ bt[k].is_entry => IsZero(PrevPos(k))
        /\ bt[k].is_exit => (IsPositive(PrevPos(k)) /\ IsZero(bt[k].position))

\* An exit on a date whose gates all hold, and the re-entry on the next date.
C5_Witness ==
    \E k \in 1..(Len(bt) - 1) :
        bt[k].is_exit /\ bt[k].gates /\ bt[k + 1].is_entry

(***************************************************************************)
(* C6.  After each date's transition, position = 0 implies days_left = 0,  *)
(* in every variant and for every pred_std.                                *)
(***************************************************************************)
C6_FlatMeansNoDaysLeft ==
    IsZero(position) => days_left = 0

\* It holds wherever the size of an entry cannot be 0.
FlatMeansNoDaysLeftWithSpread ==
    (cfg.variant # "walkforward" \/ StdPositive(thr))
    => (IsZero(position) => days_left = 0)

(***************************************************************************)
(* C7.  position is in [0, 1], days_left is in 0..hold_days, the loop      *)
(* starts from position = 0, days_left = 0, and a non-zero position of a   *)
(* sized variant is min(prediction / pred_std, 1) of its entry date.       *)
(***************************************************************************)
C7_StateBounds ==
    /\ InUnit(position)
    /\ days_left \in 0..cfg.hold_days
    /\ i = 0 => (IsZero(position) /\ days_left = 0)
    /\ (Sized /\ IsPositive(position))
          => /\ HasEntryBefore(i + 1)
             /\ LET pred == test[LastEntryBefore(i + 1)].prediction
                    n == thr.pred.n
                IN  /\ pred * pred * n * (n - 1) >= thr.pred.q => position = One
                    /\ pred * pred * n * (n - 1) < thr.pred.q => position = Val(0, pred)

\* A fractional position, held on a date after its entry date.
C7_Witness ==
    /\ Sized
    /\ position.f > 0
    /\ i >= 2
    /\ ~bt[i].is_entry

InitHysteresis ==
    /\ \E p \in ParamSets, mode \in {"call", "series"} : HystStart(p, mode)
    /\ LifeIdle
    /\ MetaIdle /\ VolIdle /\ PortIdle /\ RestIdle

\* One call decide_state_hysteresis_v1(row, prev_state, p).
DecideCall ==
    /\ pc = "call"
    /\ \E row \in RegimeRows, s \in PrevStates :
          /\ regime_row' = row
          /\ prev_state' = s
          /\ state' = decide_state_hysteresis_v1(row, s, params)
    /\ pc' = "called"
    /\ UNCHANGED <<params, prev, states, warmup, zone, lifeVars>>
    /\ UNCHANGED <<metaVars, volVars, portVars, restVars>>

\* One iteration of build_state_series_hysteresis_v1's loop.
FoldRow ==
    /\ pc = "series"
    /\ Len(states) < MaxRegimeRows
    /\ \E row \in RegimeRows :
          LET nxt == decide_state_hysteresis_v1(row, prev, params)
          IN  /\ states' = Append(states, nxt)
              /\ warmup' = Append(warmup, ~RowDefined(row))
              /\ zone' = Append(zone, [trend |-> InTrendDeadZone(row),
                                       mr |-> InMeanrevDeadZone(row)])
              /\ prev' = nxt
    /\ UNCHANGED <<params, regime_row, prev_state, state, pc, lifeVars>>
    /\ UNCHANGED <<metaVars, volVars, portVars, restVars>>

NextHysteresis == DecideCall \/ FoldRow

SpecHysteresis == InitHysteresis /\ [][NextHysteresis]_vars

\* A call of the transition function has returned.
Decided == pc = "called"
AllDefined == RowDefined(regime_row)

(***************************************************************************)
(* C8.  An undefined mom_60, mom_20, vol_20 or drawdown_60 gives CASH for  *)
(* every prev_state and every threshold table; a series is CASH on every   *)
(* date with an undefined feature.                                         *)
(***************************************************************************)
C8_UndefinedIsCash ==
    /\ (Decided /\ ~AllDefined) => state = CASH
    /\ \A k \in 1..Len(states) : warmup[k] => states[k] = CASH

\* A call from TREND in which only drawdown_60 is undefined.
C8_Witness ==
    /\ Decided
    /\ prev_state = TREND
    /\ regime_row.drawdown_60.nan
    /\ ~regime_row.mom_60.nan /\ ~regime_row.mom_20.nan /\ ~regime_row.vol_20.nan
    /\ state = CASH

(***************************************************************************)
(* C9.  From TREND with all features defined: TREND unless                 *)
(* mom_60 < trend_exit_mom60 or mom_20 < trend_exit_mom20; then MEANREV if *)
(* mom_20 < mr_enter_mom20, drawdown_60 < mr_enter_dd60 and                *)
(* vol_20 < mr_enter_vol20_max, else CASH.                                 *)
(***************************************************************************)
C9_FromTrend ==
    (Decided /\ AllDefined /\ prev_state = TREND)
    => LET r == regime_row
           exits == r.mom_60.v < params.trend_exit_mom60
                        \/ r.mom_20.v < params.trend_exit_mom20
           mrIn == /\ r.mom_20.v < params.mr_enter_mom20
                   /\ r.drawdown_60.v < params.mr_enter_dd60
                   /\ r.vol_20.v < params.mr_enter_vol20_max
       IN  state = IF ~exits THEN TREND ELSE IF mrIn THEN MEANREV ELSE CASH

\* TREND left for MEANREV on one row, with only one of the exit floors broken.
C9_Witness ==
    /\ Decided /\ AllDefined /\ prev_state = TREND
    /\ params = DEFAULT_HYST_PARAMS
    /\ regime_row.mom_60.v >= params.trend_exit_mom60
    /\ state = MEANREV

(***************************************************************************)
(* C10.  From MEANREV with all features defined: MEANREV unless            *)
(* mom_20 > mr_exit_mom20 or drawdown_60 > mr_exit_dd60 or                 *)
(* vol_20 > mr_exit_vol20_max; then TREND if mom_60 > trend_enter_mom60    *)
(* and mom_20 > trend_enter_mom20, else CASH.                              *)
(***************************************************************************)
C10_FromMeanrev ==
    (Decided /\ AllDefined /\ prev_state = MEANREV)
    => LET r == regime_row
           exits == \/ r.mom_20.v > params.mr_exit_mom20
                    \/ r.drawdown_60.v > params.mr_exit_dd60
                    \/ r.vol_20.v > params.mr_exit_vol20_max
           trendIn == /\ r.mom_60.v > params.trend_enter_mom60
                      /\ r.mom_20.v > params.trend_enter_mom20
       IN  state = IF ~exits THEN MEANREV ELSE IF trendIn THEN TREND ELSE CASH

\* MEANREV left for CASH because of volatility alone.
C10_Witness ==
    /\ Decided /\ AllDefined /\ prev_state = MEANREV
    /\ params = DEFAULT_HYST_PARAMS
    /\ regime_row.mom_20.v <= params.mr_exit_mom20
    /\ regime_row.drawdown_60.v <= params.mr_exit_dd60
    /\ regime_row.vol_20.v > params.mr_exit_vol20_max
    /\ state = CASH

(***************************************************************************)
(* C11.  From CASH, or from any prev_state that is neither TREND nor       *)
(* MEANREV, with all features defined: TREND if mom_60 > trend_enter_mom60 *)
(* and mom_20 > trend_enter_mom20; else MEANREV if mom_20 < mr_enter_mom20,*)
(* drawdown_60 < mr_enter_dd60 and vol_20 < mr_enter_vol20_max; else CASH. *)
(* TREND wins when both entries hold, and every result is one of the three *)
(* states.                                                                 *)
(***************************************************************************)
C11_FromCash ==
    /\ Decided => state \in {TREND, MEANREV, CASH}
    /\ \A k \in 1..Len(states) : states[k] \in {TREND, MEANREV, CASH}
    /\ (Decided /\ AllDefined /\ prev_state \notin {TREND, MEANREV})
          => LET r == regime_row
                 trendIn == /\ r.mom_60.v > params.trend_enter_mom60
                            /\ r.mom_20.v > params.trend_enter_mom20
                 mrIn == /\ r.mom_20.v < params.mr_enter_mom20
                         /\ r.drawdown_60.v < params.mr_enter_dd60
                         /\ r.vol_20.v < params.mr_enter_vol20_max
             IN  state = IF trendIn THEN TREND ELSE IF mrIn THEN MEANREV ELSE CASH

\* Both entry conditions hold on a row met with an unknown prev_state.
C11_Witness ==
    /\ Decided /\ AllDefined /\ prev_state = "OTHER"
    /\ regime_row.mom_60.v > params.trend_enter_mom60
    /\ regime_row.mom_20.v > params.trend_enter_mom20
    /\ regime_row.mom_20.v < params.mr_enter_mom20
    /\ regime_row.drawdown_60.v < params.mr_enter_dd60
    /\ regime_row.vol_20.v < params.mr_enter_vol20_max
    /\ state = TREND

(***************************************************************************)
(* C12.  Dead zone, default thresholds.  A series that is TREND stays      *)
(* TREND on every date whose row has mom_60 in [-0.02, 0.00] and mom_20 in *)
(* [-0.02, -0.005]; a series that is MEANREV stays MEANREV on every date   *)
(* whose row has mom_20 in [-0.025, -0.005], drawdown_60 in [-0.03, -0.01] *)
(* and vol_20 in [0.40, 0.45].                                             *)
(***************************************************************************)
C12_DeadZone ==
    params = DEFAULT_HYST_PARAMS
    => \A k \in 2..Len(states) :
          /\ (states[k - 1] = TREND /\ zone[k].trend) => states[k] = TREND
          /\ (states[k - 1] = MEANREV /\ zone[k].mr) => states[k] = MEANREV

\* TREND entered on the first date and kept over two dead-zone dates.
C12_Witness ==
    /\ params = DEFAULT_HYST_PARAMS
    /\ Len(states) = 3
    /\ states = <<TREND, TREND, TREND>>
    /\ ~zone[1].trend /\ zone[2].trend /\ zone[3].trend

\* MEANREV kept over a dead-zone date that is not a MEANREV entry date.
MeanrevKeptInDeadZone ==
    /\ params = DEFAULT_HYST_PARAMS
    /\ Len(states) >= 2
    /\ states[1] = MEANREV /\ states[2] = MEANREV
    /\ zone[2].mr /\ ~zone[2].trend

(***************************************************************************)
(* The allocators over dated tables: build_state_series_hysteresis_v1,     *)
(* build_meta_raw_returns_hysteresis_v1, and the stateless                 *)
(* build_meta_raw_returns of meta_allocator_v1.py.  A table is a sequence  *)
(* of rows with a date column; dates are unique within a table.            *)
(***************************************************************************)
MaxMetaDates == 3

choose_state_v1(row) ==
    IF isna(row.mom_60) \/ isna(row.mom_20) \/ isna(row.vol_20)
          \/ isna(row.drawdown_60)
    THEN CASH
    ELSE IF Gt(row.mom_60, 0) /\ Gt(row.mom_20, -10) THEN TREND
    ELSE IF Lt(row.mom_20, -20) /\ Lt(row.drawdown_60, -30) /\ Lt(row.vol_20, 400)
    THEN MEANREV
    ELSE CASH

keep_row_order(df) == df
\* df.sort_values("date").reset_index(drop=True)
RECURSIVE sort_values_date(_)
sort_values_date(df) ==
    IF df = <<>> THEN <<>>
    ELSE LET k == CHOOSE j \in 1..Len(df) :
                      \A m \in 1..Len(df) :
                          \/ df[j].date < df[m].date
                          \/ (df[j].date = df[m].date /\ j <= m)
             rest == [m \in 1..(Len(df) - 1) |-> IF m < k THEN df[m] ELSE df[m + 1]]
         IN  <<df[k]>> \o sort_values_date(rest)

\* The loop of build_state_series_hysteresis_v1 over the first k rows of df.
RECURSIVE StatesOf(_, _, _)
StatesOf(df, k, p) ==
    IF k = 0 THEN <<>>
    ELSE LET s == StatesOf(df, k - 1, p)
             prv == IF k = 1 THEN CASH ELSE s[k - 1]
         IN  Append(s, decide_state_hysteresis_v1(df[k], prv, p))

build_state_series_hysteresis_v1(regime_df, p) ==
    LET df == sort_values_date(regime_df)
    IN  StatesOf(df, Len(df), p)

HasDate(t, d) == \E k \in 1..Len(t) : t[k].date = d
RowOfDate(t, d) == t[CHOOSE k \in 1..Len(t) : t[k].date = d]

\* The two inner merges on date: rows of regime_df, in its order, whose date
\* both return tables have.
merge_on_date(regime_df, trend_out, meanrev_out) ==
    LET kept == SelectSeq(regime_df,
                          LAMBDA r : HasDate(trend_out, r.date)
                                        /\ HasDate(meanrev_out, r.date))
    IN  [k \in 1..Len(kept) |->
            [date |-> kept[k].date,
             mom_60 |-> kept[k].mom_60,
             mom_20 |-> kept[k].mom_20,
             vol_20 |-> kept[k].vol_20,
             drawdown_60 |-> kept[k].drawdown_60,
             trend_raw_ret |-> RowOfDate(trend_out, kept[k].date).raw_ret,
             meanrev_raw_ret |-> RowOfDate(meanrev_out, kept[k].date).raw_ret]]

meta_raw_ret_swapped(st, trend_raw_ret, meanrev_raw_ret) ==
    IF st = TREND THEN meanrev_raw_ret
    ELSE IF st = MEANREV THEN trend_raw_ret
    ELSE 0
meta_raw_ret(st, trend_raw_ret, meanrev_raw_ret) ==
    IF st = TREND THEN trend_raw_ret
    ELSE IF st = MEANREV THEN meanrev_raw_ret
    ELSE 0

\* The returned columns of a merged row r that was given state st.
WithState(r, st) ==
    [date |-> r.date,
     state |-> st,
     meta_raw_ret |-> meta_raw_ret(st, r.trend_raw_ret, r.meanrev_raw_ret)]

\* merged["state"] = series: the series' k-th label is the k-th row of merged.
build_meta_raw_returns_hysteresis_v1(trend_out, meanrev_out, regime_df, p) ==
    LET m == sort_values_date(merge_on_date(regime_df, trend_out, meanrev_out))
        sts == build_state_series_hysteresis_v1(m, p)
    IN  [k \in 1..Len(m) |-> WithState(m[k], sts[k])]

build_meta_raw_returns(trend_out, meanrev_out, regime_df) ==
    LET m == sort_values_date(merge_on_date(regime_df, trend_out, meanrev_out))
    IN  [k \in 1..Len(m) |-> WithState(m[k], choose_state_v1(m[k]))]

(***************************************************************************)
(* Allocator inputs: regime tables of up to MaxMetaDates dates in every    *)
(* row order, and return tables that may lack a date.                      *)
(***************************************************************************)
SeriesRows ==
    {[mom_60 |-> Num(10), mom_20 |-> Num(0), vol_20 |-> Num(300),
      drawdown_60 |-> Num(0)],
     [mom_60 |-> Num(-10), mom_20 |-> Num(-10), vol_20 |-> Num(300),
      drawdown_60 |-> Num(0)],
     [mom_60 |-> Num(-30), mom_20 |-> Num(-30), vol_20 |-> Num(300),
      drawdown_60 |-> Num(-40)],
     NoRow}
Dated(d, row) ==
    [date |-> d, mom_60 |-> row.mom_60, mom_20 |-> row.mom_20,
     vol_20 |-> row.vol_20, drawdown_60 |-> row.drawdown_60]
Perms(n) == {f \in [1..n -> 1..n] : \A a, b \in 1..n : a # b => f[a] # f[b]}
RegimeTables(n) ==
    {[k \in 1..n |-> Dated(f[k], g[k])] : f \in Perms(n), g \in [1..n -> SeriesRows]}
TrendRawRet(d) == 100 * d - 150
MeanrevRawRet(d) == 40 - 30 * d
\* The sleeve output of dates 1..n without date skip; ret[d] is the raw_ret
\* of date d.
ReturnTable(n, skip, ret) ==
    SelectSeq([d \in 1..n |-> [date |-> d, raw_ret |-> ret[d]]],
              LAMBDA r : r.date # skip)

MetaStart(df, t, m) ==
    /\ meta_call = [regime_df |-> df, trend_out |-> t, meanrev_out |-> m]
    /\ state_series = <<>>
    /\ merged = <<>>

InitMeta ==
    /\ \E n \in 0..MaxMetaDates :
          \E df \in RegimeTables(n) :
             \/ \E p \in ParamSets :
                   /\ HystStart(p, "series_call")
                   /\ MetaStart(df, <<>>, <<>>)
             \/ \E skipT \in {0, 1}, skipM \in {0, n} :
                   /\ MetaStart(df,
                                ReturnTable(n, skipT, [d \in 1..n |-> TrendRawRet(d)]),
                                ReturnTable(n, skipM, [d \in 1..n |-> MeanrevRawRet(d)]))
                   /\ \/ \E p \in ParamSets : HystStart(p, "hysteresis_call")
                      \/ HystStart(DEFAULT_HYST_PARAMS, "stateless_call")
    /\ LifeIdle /\ VolIdle /\ PortIdle /\ RestIdle

\* One call build_state_series_hysteresis_v1(regime_df, p).
BuildStateSeries ==
    /\ pc = "series_call"
    /\ state_series' = build_state_series_hysteresis_v1(meta_call.regime_df, params)
    /\ pc' = "series_returned"
    /\ UNCHANGED <<meta_call, merged, lifeVars, hystVars, volVars, portVars, restVars>>

\* One call build_meta_raw_returns_hysteresis_v1(trend_out, meanrev_out,
\* regime_df, p).
BuildMetaHysteresis ==
    /\ pc = "hysteresis_call"
    /\ merged' = build_meta_raw_returns_hysteresis_v1(
                     meta_call.trend_out, meta_call.meanrev_out,
                     meta_call.regime_df, params)
    /\ pc' = "hysteresis_returned"
    /\ UNCHANGED <<meta_call, state_series, lifeVars, hystVars, volVars, portVars, restVars>>

\* One call build_meta_raw_returns(trend_out, meanrev_out, regime_df).
BuildMetaStateless ==
    /\ pc = "stateless_call"
    /\ merged' = build_meta_raw_returns(meta_call.trend_out, meta_call.meanrev_out,
                                        meta_call.regime_df)
    /\ pc' = "stateless_returned"
    /\ UNCHANGED <<meta_call, state_series, lifeVars, hystVars, volVars, portVars, restVars>>

NextMeta == BuildStateSeries \/ BuildMetaHysteresis \/ BuildMetaStateless

SpecMeta == InitMeta /\ [][NextMeta]_vars

(***************************************************************************)
(* C13.  build_state_series_hysteresis_v1 folds the transition function    *)
(* over the rows in ascending date order from CASH: the state of the first *)
(* date is decide(row, CASH), the state of each later date is              *)
(* decide(row, state of the date before); there is one state per date, and *)
(* the result is the same for every row order of the input table.          *)
(***************************************************************************)
C13_FoldInDateOrder ==
    pc = "series_returned"
    => LET df == meta_call.regime_df
           n == Len(df)
       IN  /\ Len(state_series) = n
           /\ \A d \in 1..n :
                 state_series[d] =
                     decide_state_hysteresis_v1(
                         RowOfDate(df, d),
                         IF d = 1 THEN CASH ELSE state_series[d - 1],
                         params)
           /\ \A f \in Perms(n) :
                 build_state_series_hysteresis_v1([k \in 1..n |-> df[f[k]]], params)
                     = state_series

\* A table given latest date first, for which folding in the given row order
\* would have produced other states.
C13_Witness ==
    /\ pc = "series_returned"
    /\ Len(meta_call.regime_df) = 3
    /\ meta_call.regime_df[1].date = 3
    /\ meta_call.regime_df[3].date = 1
    /\ state_series # StatesOf(meta_call.regime_df, 3, params)
    /\ state_series[2] = TREND

(***************************************************************************)
(* C14.  Both allocators return one row per date present in all three      *)
(* inputs, in date order; the row's state is the one decided from that     *)
(* date's features, and its meta_raw_ret is the trend sleeve's raw_ret of  *)
(* that date when the state is TREND, the mean-reversion sleeve's when     *)
(* MEANREV, and 0 when CASH.                                               *)
(***************************************************************************)
C14_MetaReturn ==
    pc \in {"hysteresis_returned", "stateless_returned"}
    => LET c == meta_call
           common == {d \in 1..MaxMetaDates :
                         /\ HasDate(c.regime_df, d)
                         /\ HasDate(c.trend_out, d)
                         /\ HasDate(c.meanrev_out, d)}
       IN  /\ {merged[k].date : k \in 1..Len(merged)} = common
           /\ \A k \in 1..(Len(merged) - 1) : merged[k].date < merged[k + 1].date
           /\ \A k \in 1..Len(merged) :
                 LET o == merged[k]
                     src == RowOfDate(c.regime_df, o.date)
                 IN  /\ o.state =
                            IF pc = "stateless_returned"
                            THEN choose_state_v1(src)
                            ELSE decide_state_hysteresis_v1(
                                     src,
                                     IF k = 1 THEN CASH ELSE merged[k - 1].state,
                                     params)
                     /\ o.state \in {TREND, MEANREV, CASH}
                     /\ o.state = TREND
                           => o.meta_raw_ret = RowOfDate(c.trend_out, o.date).raw_ret
                     /\ o.state = MEANREV
                           => o.meta_raw_ret = RowOfDate(c.meanrev_out, o.date).raw_ret
                     /\ o.state = CASH => o.meta_raw_ret = 0

\* The hysteretic allocator on a table out of date order with one date lost in
\* the merge: a TREND date and a MEANREV date carry their sleeves' returns.
C14_Witness ==
    /\ pc = "hysteresis_returned"
    /\ Len(meta_call.regime_df) = 3
    /\ meta_call.regime_df[1].date = 3
    /\ Len(merged) = 2
    /\ merged[1].state = TREND /\ merged[1].meta_raw_ret = TrendRawRet(merged[1].date)
    /\ merged[2].state = MEANREV
    /\ merged[2].meta_raw_ret = MeanrevRawRet(merged[2].date)

\* The stateless allocator gives 0 on a CASH date between two TREND dates.
StatelessCashIsZero ==
    /\ pc = "stateless_returned"
    /\ Len(merged) = 3
    /\ merged[1].state = TREND /\ merged[2].state = CASH /\ merged[3].state = TREND
    /\ merged[2].meta_raw_ret = 0

(***************************************************************************)
(* Vol targeting: apply_vol_targeting of risk_targeting_v1.py.             *)
(*                                                                         *)
(* Numbers.  Returns and target_vol_annual are integers in units of 0.1%,  *)
(* max_leverage in tenths.  A rolling standard deviation is kept as        *)
(* [n, q] with std = sqrt(q / (n (n - 1))), q = n * sum(x^2) - sum(x)^2.   *)
(* A leverage is a record of kind                                          *)
(*   "nan", "inf", "-inf"  the floating-point specials,                    *)
(*   "num"                 the number v / 10,                              *)
(*   "ratio"               (t / sqrt(252)) / sqrt(q / (n (n - 1))), t # 0. *)
(***************************************************************************)
MaxVolRows == 4
MaxLookback == 3
TradingDays == 252

LevSpecial(k) == [kind |-> k, v |-> 0, t |-> 0, n |-> 0, q |-> 0]
LevNum(x) == [kind |-> "num", v |-> x, t |-> 0, n |-> 0, q |-> 0]
LevRatio(target, std) ==
    [kind |-> "ratio", v |-> 0, t |-> target, n |-> std.n, q |-> std.q]

UndefinedStd == [nan |-> TRUE, n |-> 0, q |-> 0]
\* A window that is filled with what rows there are: rolling(lookback,
\* min_periods=1).
rolling_std_min_periods_1(s, t, lookback) ==
    LET lo == IF t < lookback THEN 1 ELSE t - lookback + 1
        n == t - lo + 1
    IN  IF (\E j \in lo..t : s[j].nan) \/ n < 2 THEN UndefinedStd
        ELSE LET st == PredStats([j \in 1..n |-> s[lo + j - 1].v])
             IN  [nan |-> FALSE, n |-> st.n, q |-> st.q]
\* The same over every row up to t, not the trailing lookback rows alone.
expanding_std(s, t, lookback) ==
    IF t < lookback THEN UndefinedStd
    ELSE IF \E j \in 1..t : s[j].nan THEN UndefinedStd
    ELSE IF t < 2 THEN UndefinedStd
    ELSE LET st == PredStats([j \in 1..t |-> s[j].v])
         IN  [nan |-> FALSE, n |-> st.n, q |-> st.q]
\* series.rolling(lookback).std() at row t: undefined until the window is
\* full, when a value of the window is undefined, and for a window of one.
rolling_std(s, t, lookback) ==
    IF t < lookback THEN UndefinedStd
    ELSE IF \E j \in (t - lookback + 1)..t : s[j].nan THEN UndefinedStd
    ELSE IF lookback < 2 THEN UndefinedStd
    ELSE LET st == PredStats([j \in 1..lookback |-> s[t - lookback + j].v])
         IN  [nan |-> FALSE, n |-> st.n, q |-> st.q]

\* target_daily / realized_daily in floating point.
lev_ratio(target, std) ==
    IF std.nan THEN LevSpecial("nan")
    ELSE IF std.q = 0
         THEN (IF target > 0 THEN LevSpecial("inf")
               ELSE IF target < 0 THEN LevSpecial("-inf")
               ELSE LevSpecial("nan"))
    ELSE IF target = 0 THEN LevNum(0)
    ELSE LevRatio(target, std)

\* x < c / 10 and x > c / 10 for a leverage x and c >= 0; false on "nan".
LevLess(x, c) ==
    \/ x.kind = "-inf"
    \/ x.kind = "num" /\ x.v < c
    \/ x.kind = "ratio" /\ x.t < 0
LevGreater(x, c) ==
    \/ x.kind = "inf"
    \/ x.kind = "num" /\ x.v > c
    \/ x.kind = "ratio" /\ x.t > 0
          /\ 100 * x.t * x.t * x.n * (x.n - 1) > TradingDays * c * c * x.q

clip_lower_only(x, lower, upper) ==
    IF LevLess(x, lower) THEN LevNum(lower) ELSE x
\* Series.clip(lower, upper) on one value: "nan" stays.
clip(x, lower, upper) ==
    LET y == IF LevLess(x, lower) THEN LevNum(lower) ELSE x
    IN  IF LevGreater(y, upper) THEN LevNum(upper) ELSE y

fillna_0(x) == IF x.kind = "nan" THEN LevNum(0) ELSE x

\* raw_ret * lev; a product is kept as its two factors.
ZeroProduct == [nan |-> FALSE, raw |-> 0, lev |-> LevNum(0)]
Times(x, lev) ==
    IF x.nan \/ lev.kind = "nan" THEN [nan |-> TRUE, raw |-> 0, lev |-> LevNum(0)]
    ELSE IF x.v = 0 \/ lev = LevNum(0) THEN ZeroProduct
    ELSE [nan |-> FALSE, raw |-> x.v, lev |-> lev]

apply_vol_targeting(raw_ret, target_vol_annual, lookback, max_leverage) ==
    [t \in 1..Len(raw_ret) |->
        LET realized_daily == rolling_std(raw_ret, t, lookback)
            lev == fillna_0(clip(lev_ratio(target_vol_annual, realized_daily),
                                 0, max_leverage))
        IN  [raw_ret |-> raw_ret[t],
             lev |-> lev,
             meta_ret |-> Times(raw_ret[t], lev)]]

RawRets == Feature({-10, 0, 5})
TargetVols == {0, 100}
MaxLeverages == {0, 10, 20}

InitVol ==
    /\ \E n \in 0..MaxVolRows :
          \E s \in [1..n -> RawRets], tv \in TargetVols,
             lb \in 1..MaxLookback, ml \in MaxLeverages :
                vol_call = [raw_ret |-> s, target_vol_annual |-> tv,
                            lookback |-> lb, max_leverage |-> ml]
    /\ vol_df = <<>>
    /\ pc = "vol_call"
    /\ LifeIdle /\ HystIdle /\ MetaIdle /\ PortIdle /\ RestIdle

\* One call apply_vol_targeting(raw_ret, target_vol_annual, lookback,
\* max_leverage).
ApplyVolTargeting ==
    /\ pc = "vol_call"
    /\ vol_df' = apply_vol_targeting(vol_call.raw_ret, vol_call.target_vol_annual,
                                     vol_call.lookback, vol_call.max_leverage)
    /\ pc' = "vol_returned"
    /\ UNCHANGED <<vol_call, lifeVars, hystVars, metaVars, portVars, restVars>>

NextVol == ApplyVolTargeting

SpecVol == InitVol /\ [][NextVol]_vars

\* Reading a call: its arguments, and the trailing window of date t.
VolReturned == pc = "vol_returned"
WindowFull(t) == t >= vol_call.lookback
WindowDates(t) == (t - vol_call.lookback + 1)..t
WindowDefined(t) ==
    WindowFull(t) /\ \A j \in WindowDates(t) : ~vol_call.raw_ret[j].nan
LevIsZero(l) == l.kind = "num" /\ l.v = 0

(***************************************************************************)
(* C15.  For every return series, lookback and max_leverage >= 0 the       *)
(* leverage of every date is a number in [0, max_leverage]: never          *)
(* negative, above max_leverage, infinite or undefined.                    *)
(***************************************************************************)
C15_LeverageBounded ==
    VolReturned
    => /\ Len(vol_df) = Len(vol_call.raw_ret)
       /\ \A t \in 1..Len(vol_df) :
             LET l == vol_df[t].lev
                 m == vol_call.max_leverage
             IN  \/ l.kind = "num" /\ 0 <= l.v /\ l.v <= m
                 \/ /\ l.kind = "ratio"
                    /\ l.t > 0 /\ l.q > 0 /\ l.n >= 2
                    /\ 100 * l.t * l.t * l.n * (l.n - 1) <= TradingDays * m * m * l.q

\* One call with a leverage strictly inside the range on one date and an
\* infinite ratio clipped to max_leverage on another.
C15_Witness ==
    /\ VolReturned
    /\ vol_call.max_leverage > 0
    /\ \E t \in 1..Len(vol_df) :
          /\ vol_df[t].lev.kind = "ratio"
          /\ 100 * vol_df[t].lev.t * vol_df[t].lev.t * vol_df[t].lev.n
                 * (vol_df[t].lev.n - 1)
               < TradingDays * vol_call.max_leverage * vol_call.max_leverage
                     * vol_df[t].lev.q
    /\ \E t \in 1..Len(vol_df) :
          /\ WindowDefined(t)
          /\ \A j \in WindowDates(t) : vol_call.raw_ret[j] = vol_call.raw_ret[t]
          /\ vol_df[t].lev = LevNum(vol_call.max_leverage)

(***************************************************************************)
(* C16.  On a date whose full trailing window has zero realized            *)
(* volatility (lookback >= 2 equal, defined returns) the leverage is 0.    *)
(***************************************************************************)
C16_ZeroVolIsZeroLeverage ==
    VolReturned
    => \A t \in 1..Len(vol_df) :
          (/\ vol_call.lookback >= 2
           /\ WindowDefined(t)
           /\ \A j \in WindowDates(t) : vol_call.raw_ret[j] = vol_call.raw_ret[t])
          => LevIsZero(vol_df[t].lev)

\* What the code does on those dates: the infinite ratio is clipped to
\* max_leverage when the target is positive, and 0 / 0 is filled with 0.
ZeroVolIsMaxLeverage ==
    VolReturned
    => \A t \in 1..Len(vol_df) :
          (/\ vol_call.lookback >= 2
           /\ WindowDefined(t)
           /\ \A j \in WindowDates(t) : vol_call.raw_ret[j] = vol_call.raw_ret[t])
          => vol_df[t].lev = IF vol_call.target_vol_annual > 0
                             THEN LevNum(vol_call.max_leverage)
                             ELSE LevNum(0)

(***************************************************************************)
(* C17.  Leverage is 0, and meta_ret is 0 for a defined raw_ret, on the    *)
(* first lookback - 1 dates and on every date whose trailing window holds  *)
(* an undefined return; meta_ret is raw_ret times lev on every date.       *)
(***************************************************************************)
C17_WarmupIsZero ==
    VolReturned
    => \A t \in 1..Len(vol_df) :
          LET r == vol_df[t]
              x == vol_call.raw_ret[t]
          IN  /\ r.raw_ret = x
              /\ (~WindowDefined(t))
                    => /\ LevIsZero(r.lev)
                       /\ ~x.nan => r.meta_ret = ZeroProduct
              /\ r.meta_ret.nan <=> x.nan
              /\ ~x.nan
                    => IF x.v = 0 \/ LevIsZero(r.lev)
                       THEN r.meta_ret = ZeroProduct
                       ELSE r.meta_ret.raw = x.v /\ r.meta_ret.lev = r.lev

\* A window of two dates with an undefined return on its first date, a
\* non-zero return on its second; a later date is levered.
C17_Witness ==
    /\ VolReturned
    /\ vol_call.lookback = 2
    /\ Len(vol_df) = 4
    /\ vol_call.raw_ret[1].nan
    /\ ~vol_call.raw_ret[2].nan /\ vol_call.raw_ret[2].v # 0
    /\ LevIsZero(vol_df[2].lev) /\ vol_df[2].meta_ret = ZeroProduct
    /\ vol_df[4].lev.kind = "ratio"
    /\ ~vol_df[4].meta_ret.nan /\ vol_df[4].meta_ret.raw # 0

(***************************************************************************)
(* Inverse-vol weights: compute_inverse_vol_weights of                     *)
(* portfolio_constructor_v1.py.                                            *)
(*                                                                         *)
(* Numbers.  A weight is a rational [num, den] in lowest terms, or         *)
(* undefined.  On one date all assets share the window length n, so        *)
(* 1 / vol_a = sqrt(n (n - 1)) / sqrt(q_a); with g the smallest q of the   *)
(* date this is k / sqrt(q_a g) for one factor k common to the date, which *)
(* cancels in inv_vol / sum(inv_vol).  The inputs are the tables on which  *)
(* sqrt(q_a g) is an integer for every asset and date, so that every       *)
(* weight is rational; max_weight is in hundredths.                        *)
(***************************************************************************)
MaxWeightRows == 2
MaxWeightLookback == 2

Assets == {"A", "B", "C"}
\* One row of a frame with a column per asset.
AssetRow(cell) == [A |-> cell["A"], B |-> cell["B"], C |-> cell["C"]]

RECURSIVE GCD(_, _)
GCD(a, b) == IF b = 0 THEN a ELSE GCD(b, a % b)
Rat(n, d) ==
    LET g == GCD(n, d) IN [nan |-> FALSE, num |-> n \div g, den |-> d \div g]
UndefinedWeight == [nan |-> TRUE, num |-> 0, den |-> 1]
RatLess(x, y) == x.num * y.den < y.num * x.den
IsSquare(x) == \E r \in 0..x : r * r = x
ISqrt(x) == CHOOSE r \in 0..x : r * r = x

\* The sum of the defined values of a row over the assets of S.
RECURSIVE RowSumOver(_, _)
RowSumOver(row, S) ==
    IF S = {} THEN Rat(0, 1)
    ELSE LET a == CHOOSE x \in S : TRUE
             rest == RowSumOver(row, S \ {a})
         IN  IF row[a].nan THEN rest
             ELSE Rat(row[a].num * rest.den + rest.num * row[a].den,
                      row[a].den * rest.den)

\* frame.div(frame.sum(axis=1), axis=0) on one row: the sum skips undefined
\* values, and 0 / 0 is undefined.
div_by_sum(row) ==
    LET total == RowSumOver(row, Assets)
    IN  AssetRow([a \in Assets |->
            IF row[a].nan \/ total.num = 0 THEN UndefinedWeight
            ELSE Rat(row[a].num * total.den, row[a].den * total.num)])

\* The rolling volatility of every asset on date t.
vol_row(ret_wide, t, lookback) ==
    AssetRow([a \in Assets |-> rolling_std(Column(ret_wide, a), t, lookback)])
FiniteInverse(vol) == {a \in Assets : ~vol[a].nan /\ vol[a].q > 0}
SmallestQ(vol) ==
    CHOOSE g \in {vol[a].q : a \in FiniteInverse(vol)} :
        \A a \in FiniteInverse(vol) : g <= vol[a].q

\* 1.0 / vol with the inf of a zero volatility kept as a finite value.
inv_vol_row_keeping_zero_vol(ret_wide, t, lookback) ==
    LET vol == vol_row(ret_wide, t, lookback)
    IN  AssetRow([a \in Assets |->
            IF vol[a].nan THEN UndefinedWeight
            ELSE IF vol[a].q = 0 THEN Rat(1, 1)
            ELSE Rat(1, ISqrt(vol[a].q * SmallestQ(vol)))])
\* 1.0 / vol with inf replaced by nan, up to the date's common factor.
inv_vol_row(ret_wide, t, lookback) ==
    LET vol == vol_row(ret_wide, t, lookback)
        g == SmallestQ(vol)
    IN  AssetRow([a \in Assets |->
            IF a \in FiniteInverse(vol)
            THEN Rat(1, ISqrt(vol[a].q * g))
            ELSE UndefinedWeight])

\* w.clip(upper=max_weight) on one row.
clip_upper(row, max_weight) ==
    AssetRow([a \in Assets |->
        IF ~row[a].nan /\ RatLess(Rat(max_weight, 100), row[a])
        THEN Rat(max_weight, 100)
        ELSE row[a]])

without_renormalising(row) == row
renormalise(row) == div_by_sum(row)

cap_renormalise_recap(row, max_weight) ==
    clip_upper(renormalise(clip_upper(row, max_weight)), max_weight)
cap_and_renormalise(row, max_weight) ==
    renormalise(clip_upper(row, max_weight))

keep_undefined(row) == row
fill_zero(row) == AssetRow([a \in Assets |-> IF row[a].nan THEN Rat(0, 1) ELSE row[a]])

compute_inverse_vol_weights(ret_wide, lookback, max_weight) ==
    [t \in 1..Len(ret_wide) |->
        LET w == div_by_sum(inv_vol_row(ret_wide, t, lookback))
        IN  fill_zero(IF max_weight.none THEN w
                      ELSE cap_and_renormalise(w, max_weight.v))]

\* One date of ret_wide: asset A may lack the date.
AssetRows == [A : Feature({0, 1}), B : {Num(0), Num(2)}, C : {Num(0), Num(2)}]
NoCap == [none |-> TRUE, v |-> 0]
Cap(x) == [none |-> FALSE, v |-> x]
MaxWeights == {NoCap, Cap(40), Cap(60), Cap(70)}
Commensurable(ret_wide, lookback) ==
    \A t \in 1..Len(ret_wide) :
        LET vol == vol_row(ret_wide, t, lookback)
        IN  \A a \in FiniteInverse(vol) : IsSquare(vol[a].q * SmallestQ(vol))

InitWeights ==
    /\ \E n \in 0..MaxWeightRows :
          \E rw \in [1..n -> AssetRows], lb \in 1..MaxWeightLookback,
             mw \in MaxWeights :
                /\ Commensurable(rw, lb)
                /\ weight_call = [ret_wide |-> rw, lookback |-> lb, max_weight |-> mw]
    /\ weights = <<>>
    /\ pc = "weights_call"
    /\ LifeIdle /\ HystIdle /\ MetaIdle /\ VolIdle /\ RestIdle

\* One call compute_inverse_vol_weights(ret_wide, lookback, max_weight).
ComputeInverseVolWeights ==
    /\ pc = "weights_call"
    /\ weights' = compute_inverse_vol_weights(weight_call.ret_wide,
                                              weight_call.lookback,
                                              weight_call.max_weight)
    /\ pc' = "weights_returned"
    /\ UNCHANGED <<weight_call, lifeVars, hystVars, metaVars, volVars, restVars>>

NextWeights == ComputeInverseVolWeights

SpecWeights == InitWeights /\ [][NextWeights]_vars

(***************************************************************************)
(* Reading a call of compute_inverse_vol_weights from its arguments.       *)
(***************************************************************************)
WeightsReturned == pc = "weights_returned"
WeightWindow(t) == (t - weight_call.lookback + 1)..t
\* Asset a has a finite, non-zero rolling volatility on date t: a full window
\* of lookback >= 2 defined returns that are not all equal.
VolDefined(t, a) ==
    /\ weight_call.lookback >= 2
    /\ t >= weight_call.lookback
    /\ \A j \in WeightWindow(t) : ~weight_call.ret_wide[j][a].nan
    /\ \E j, k \in WeightWindow(t) :
          weight_call.ret_wide[j][a].v # weight_call.ret_wide[k][a].v
WithVol(t) == {a \in Assets : VolDefined(t, a)}
\* n * sum(x^2) - sum(x)^2 over the window of asset a on date t.
WindowQ(t, a) ==
    PredStats([j \in 1..weight_call.lookback |->
                  weight_call.ret_wide[t - weight_call.lookback + j][a].v]).q
\* u_a = (1 / vol_a) / sum_b (1 / vol_b) = 1 / sum_b sqrt(q_a / q_b), over the
\* assets with a defined volatility on date t.
Share(t, a) ==
    LET ratios == AssetRow([b \in Assets |->
                      IF b \in WithVol(t)
                      THEN Rat(ISqrt(WindowQ(t, a) * WindowQ(t, b)), WindowQ(t, b))
                      ELSE UndefinedWeight])
        total == RowSumOver(ratios, Assets)
    IN  Rat(total.den, total.num)
MaxWeight == Rat(weight_call.max_weight.v, 100)
AboveCap(x) == 100 * x.num > weight_call.max_weight.v * x.den
IsZeroWeight(x) == ~x.nan /\ x.num = 0
SumsToOne(w) ==
    w.A.num * w.B.den * w.C.den + w.B.num * w.A.den * w.C.den
        + w.C.num * w.A.den * w.B.den
      = w.A.den * w.B.den * w.C.den

(***************************************************************************)
(* C18.  With max_weight None or > 0: on every date on which at least one  *)
(* asset has a defined (finite, non-zero) rolling volatility all weights   *)
(* are >= 0 and sum to 1; on every other date all weights are 0.           *)
(***************************************************************************)
C18_WeightsSumToOne ==
    WeightsReturned
    => /\ Len(weights) = Len(weight_call.ret_wide)
       /\ \A t \in 1..Len(weights) :
             IF WithVol(t) # {}
             THEN /\ \A a \in Assets :
                        /\ ~weights[t][a].nan
                        /\ weights[t][a].num >= 0 /\ weights[t][a].den > 0
                  /\ SumsToOne(weights[t])
             ELSE \A a \in Assets : IsZeroWeight(weights[t][a])

\* Two dates: none with a volatility, then two assets sharing the weight
\* under a cap that binds.
C18_Witness ==
    /\ WeightsReturned
    /\ ~weight_call.max_weight.none
    /\ Len(weights) = 2
    /\ WithVol(1) = {}
    /\ Cardinality(WithVol(2)) = 2
    /\ \E a \in WithVol(2) : AboveCap(Share(2, a))
    /\ SumsToOne(weights[2])
    /\ \A a \in Assets : IsZeroWeight(weights[1][a])

\* All three assets have a volatility and the cap binds on one of them.
ThreeAssetsOneCapped ==
    /\ WeightsReturned
    /\ ~weight_call.max_weight.none
    /\ \E t \in 1..Len(weights) :
          /\ WithVol(t) = Assets
          /\ AboveCap(Share(t, "A"))
          /\ SumsToOne(weights[t])

C20_OneCapPass ==
    WeightsReturned
    => \A t \in 1..Len(weights) :
          LET capped == AssetRow([b \in Assets |->
                            IF b \notin WithVol(t) THEN UndefinedWeight
                            ELSE IF ~weight_call.max_weight.none
                                    /\ AboveCap(Share(t, b))
                                 THEN MaxWeight
                                 ELSE Share(t, b)])
              total == RowSumOver(capped, Assets)
          IN  \A a \in WithVol(t) :
                 /\ ~weights[t][a].nan
                 /\ weights[t][a].num * total.num * capped[a].den
                       = capped[a].num * total.den * weights[t][a].den

\* The scenario: A and B with volatilities in ratio 1 : 2, C without one,
\* max_weight 0.6.
C20_Witness ==
    /\ WeightsReturned
    /\ weight_call.max_weight = Cap(60)
    /\ \E t \in 1..Len(weights) :
          /\ WithVol(t) = {"A", "B"}
          /\ WindowQ(t, "B") = 4 * WindowQ(t, "A")
          /\ Share(t, "A") = Rat(2, 3) /\ Share(t, "B") = Rat(1, 3)
          /\ weights[t].A = Rat(9, 14) /\ weights[t].B = Rat(5, 14)
          /\ (1000 * weights[t].A.num) \div weights[t].A.den = 642
          /\ (1000 * weights[t].B.num) \div weights[t].B.den = 357

(***************************************************************************)
(* C21.  An asset whose rolling volatility on a date is zero or undefined  *)
(* (window not yet full, or a missing return inside the window) gets       *)
(* weight exactly 0 on that date and is left out of the normalisation of   *)
(* the others, which share the whole weight among themselves; when no      *)
(* asset has a defined volatility all weights are 0; no weight emitted is  *)
(* infinite or undefined.                                                  *)
(***************************************************************************)
C21_NoVolIsZeroWeight ==
    WeightsReturned
    => \A t \in 1..Len(weights) :
          /\ \A a \in Assets :
                /\ ~weights[t][a].nan
                /\ weights[t][a].den > 0
                /\ a \notin WithVol(t) => IsZeroWeight(weights[t][a])
          /\ WithVol(t) # {}
                => /\ RowSumOver(weights[t], WithVol(t)) = Rat(1, 1)
                   /\ weight_call.max_weight.none
                         => \A a \in WithVol(t) : weights[t][a] = Share(t, a)

\* A date on which A has a missing return in its window, B a zero
\* volatility over a full window, and C alone a volatility.
C21_Witness ==
    /\ WeightsReturned
    /\ \E t \in 1..Len(weights) :
          /\ t >= weight_call.lookback
          /\ weight_call.lookback >= 2
          /\ \E j \in WeightWindow(t) : weight_call.ret_wide[j].A.nan
          /\ \A j \in WeightWindow(t) : ~weight_call.ret_wide[j].B.nan
          /\ WindowQ(t, "B") = 0
          /\ WithVol(t) = {"C"}
          /\ IsZeroWeight(weights[t].A) /\ IsZeroWeight(weights[t].B)
          /\ weights[t].C = Rat(1, 1)

(***************************************************************************)
(* The portfolio: align_asset_returns puts the per-asset meta returns on   *)
(* the union calendar, compute_inverse_vol_weights weighs them and         *)
(* build_portfolio_raw_returns blends them.                                *)
(***************************************************************************)
DatesOf(df) == {df[k].date : k \in 1..Len(df)}
\* The column of one asset after the outer join: undefined where the asset
\* has no row on the date.
ValueOn(df, d) == IF HasDate(df, d) THEN RowOfDate(df, d).meta_raw_ret ELSE NaN
RECURSIVE sort_index(_)
sort_index(D) ==
    IF D = {} THEN <<>>
    ELSE LET d == CHOOSE x \in D : \A y \in D : x <= y
         IN  <<d>> \o sort_index(D \ {d})
align_asset_returns(asset_daily) ==
    LET index == sort_index(UNION {DatesOf(asset_daily[a]) : a \in Assets})
    IN  [k \in 1..Len(index) |->
            [date |-> index[k],
             A |-> ValueOn(asset_daily.A, index[k]),
             B |-> ValueOn(asset_daily.B, index[k]),
             C |-> ValueOn(asset_daily.C, index[k])]]

\* weights * ret_wide on one cell.
weight_times_ret(w, r) ==
    IF w.nan \/ r.nan THEN UndefinedWeight ELSE Rat(w.num * r.v, w.den)
sum_axis1_keeping_undefined(row) ==
    IF \E a \in Assets : row[a].nan THEN UndefinedWeight
    ELSE RowSumOver(row, Assets)
\* sum(axis=1): undefined cells are skipped, and a row of them sums to 0.
sum_axis1(row) == RowSumOver(row, Assets)
build_portfolio_raw_returns(ret_wide, w) ==
    [t \in 1..Len(ret_wide) |->
        [date |-> ret_wide[t].date,
         portfolio_raw_ret |->
            sum_axis1(AssetRow([a \in Assets |->
                weight_times_ret(w[t][a], ret_wide[t][a])]))]]

\* The per-asset frames: per date an asset has no row or one of its returns;
\* C has a single return value, so it never has a volatility and only
\* contributes dates to the calendar.
AssetCells == [A : Feature({0, 1}), B : Feature({0, 2}), C : Feature({2})]
RECURSIVE DailyRows(_, _, _)
DailyRows(cells, a, n) ==
    IF n = 0 THEN <<>>
    ELSE LET rest == DailyRows(cells, a, n - 1)
         IN  IF cells[n][a].nan THEN rest
             ELSE Append(rest, [date |-> n, meta_raw_ret |-> cells[n][a]])
Reversed(s) == [k \in 1..Len(s) |-> s[Len(s) + 1 - k]]
AssetDaily(cells, n, descending) ==
    AssetRow([a \in Assets |->
        IF descending THEN Reversed(DailyRows(cells, a, n))
        ELSE DailyRows(cells, a, n)])

InitPortfolio ==
    /\ \E n \in 0..MaxWeightRows :
          \E cells \in [1..n -> AssetCells], descending \in BOOLEAN,
             lb \in 1..MaxWeightLookback, mw \in {NoCap, Cap(60)} :
                /\ Commensurable(align_asset_returns(AssetDaily(cells, n, descending)), lb)
                /\ port_call = [asset_daily |-> AssetDaily(cells, n, descending),
                                lookback |-> lb, max_weight |-> mw]
    /\ port = <<>>
    /\ PortIdle
    /\ pc = "align_call"
    /\ LifeIdle /\ HystIdle /\ MetaIdle /\ VolIdle
    /\ SoftIdle /\ GateIdle /\ FinIdle /\ MoreIdle

\* ret_wide = align_asset_returns(asset_daily), handed to
\* compute_inverse_vol_weights.
AlignAssetReturns ==
    /\ pc = "align_call"
    /\ weight_call' = [ret_wide |-> align_asset_returns(port_call.asset_daily),
                       lookback |-> port_call.lookback,
                       max_weight |-> port_call.max_weight]
    /\ pc' = "weights_call"
    /\ UNCHANGED <<weights, blendVars, softVars, gateVars, finVars, moreVars>>
    /\ UNCHANGED <<lifeVars, hystVars, metaVars, volVars>>

\* One call build_portfolio_raw_returns(ret_wide, weights).
BuildPortfolioRawReturns ==
    /\ pc = "weights_returned"
    /\ port' = build_portfolio_raw_returns(weight_call.ret_wide, weights)
    /\ pc' = "port_returned"
    /\ UNCHANGED <<port_call, portVars, softVars, gateVars, finVars, moreVars>>
    /\ UNCHANGED <<lifeVars, hystVars, metaVars, volVars>>

NextPortfolio ==
    \/ AlignAssetReturns
    \/ ComputeInverseVolWeights
    \/ BuildPortfolioRawReturns

SpecPortfolio == InitPortfolio /\ [][NextPortfolio]_vars

PortReturned == pc = "port_returned"
Calendar == UNION {DatesOf(port_call.asset_daily[a]) : a \in Assets}
\* The k-th date of the calendar in ascending order.
CalendarDate(k) ==
    CHOOSE d \in Calendar : Cardinality({e \in Calendar : e <= d}) = k
HasReturn(a, d) == HasDate(port_call.asset_daily[a], d)
ReturnOn(a, d) == RowOfDate(port_call.asset_daily[a], d).meta_raw_ret.v

(***************************************************************************)
(* C22.  On the union calendar built by align_asset_returns the portfolio  *)
(* return on each date is the sum of weight_i x return_i over the assets   *)
(* that have a return on that date; an asset with no row on the date is    *)
(* left out of the sum and has weight 0 on it; the portfolio return is 0   *)
(* on a date on which no asset has a defined weight.                       *)
(***************************************************************************)
C22_PortfolioReturn ==
    PortReturned
    => /\ Len(port) = Cardinality(Calendar)
       /\ \A k \in 1..Len(port) :
             LET d == CalendarDate(k)
                 terms == AssetRow([a \in Assets |->
                             IF HasReturn(a, d)
                             THEN Rat(weights[k][a].num * ReturnOn(a, d),
                                      weights[k][a].den)
                             ELSE UndefinedWeight])
             IN  /\ port[k].date = d
                 /\ port[k].portfolio_raw_ret = RowSumOver(terms, Assets)
                 /\ \A a \in Assets :
                       ~HasReturn(a, d) => IsZeroWeight(weights[k][a])
                 /\ WithVol(k) = {} => port[k].portfolio_raw_ret = Rat(0, 1)

\* Two dates; on the second A has no row, B carries the whole weight and the
\* portfolio earns B's return; on the first no asset has a weight.
C22_Witness ==
    /\ PortReturned
    /\ Len(port) = 2
    /\ \E k \in 1..Len(port) :
          /\ ~HasReturn("A", CalendarDate(k))
          /\ IsZeroWeight(weights[k].A)
          /\ weights[k].B = Rat(1, 1)
          /\ port[k].portfolio_raw_ret = Rat(2, 1)
    /\ \E k \in 1..Len(port) :
          WithVol(k) = {} /\ port[k].portfolio_raw_ret = Rat(0, 1)

(***************************************************************************)
(* The soft blender of meta_allocator_soft_v1.py.  Features are in units   *)
(* of 0.001.  A sigmoid is kept in tenths, rounded to the nearest tenth;   *)
(* the feature grid of the model keeps every sigmoid inside 0.1 .. 0.9, as *)
(* a sigmoid of a finite argument is never 0 or 1.  Scores are in units of *)
(* 0.0001.  A weight vector                                                *)
(*     [w_trend, w_meanrev, w_cash, total, scale]                          *)
(* stands for the three weights  w_x / (total + eps * scale)  with         *)
(* eps = 1e-12, so that the division by "sum + eps" is exact; scale = 0    *)
(* is a vector without an eps term.  Powers are exact integers; terms of   *)
(* order eps^2 are dropped.                                                *)
(***************************************************************************)
MaxGamma == 18
MaxSoftDates == 2

sigmoid(x, k) ==
    LET z == k * x
    IN  IF z <= -2945 THEN 0
        ELSE IF z <= -1735 THEN 1
        ELSE IF z <= -1099 THEN 2
        ELSE IF z <= -620 THEN 3
        ELSE IF z <= -201 THEN 4
        ELSE IF z <= 200 THEN 5
        ELSE IF z <= 619 THEN 6
        ELSE IF z <= 1098 THEN 7
        ELSE IF z <= 1734 THEN 8
        ELSE IF z <= 2944 THEN 9
        ELSE 10

trend_score(mom_60, mom_20) == 100 * sigmoid(mom_60, 8) * sigmoid(mom_20, 8)
meanrev_score(mom_20, drawdown_60, vol_20) ==
    10 * sigmoid(-mom_20, 8) * sigmoid(-drawdown_60, 8) * sigmoid(400 - vol_20, 12)
cash_score(trend_s, meanrev_s, vol_20) ==
    LET weak_signal == 10000 - (IF trend_s >= meanrev_s THEN trend_s ELSE meanrev_s)
        vol_risk == sigmoid(vol_20 - 350, 10)
    IN  (7 * weak_signal + 3000 * vol_risk) \div 10

scores_without_normalising(trend_s, meanrev_s, cash_s) ==
    [w_trend |-> trend_s, w_meanrev |-> meanrev_s, w_cash |-> cash_s,
     total |-> 10000, scale |-> 0]
scores_to_weights(trend_s, meanrev_s, cash_s) ==
    [w_trend |-> trend_s, w_meanrev |-> meanrev_s, w_cash |-> cash_s,
     total |-> trend_s + meanrev_s + cash_s, scale |-> 10000]

CashOnly == [w_trend |-> 0, w_meanrev |-> 0, w_cash |-> 1, total |-> 1, scale |-> 0]
soft_weights_of(row) ==
    LET t == trend_score(row.mom_60.v, row.mom_20.v)
        m == meanrev_score(row.mom_20.v, row.drawdown_60.v, row.vol_20.v)
        c == cash_score(t, m, row.vol_20.v)
    IN  scores_to_weights(t, m, c)
compute_soft_weights_row_ignoring_drawdown(row) ==
    IF AnyUndefinedButDrawdown(row) THEN CashOnly ELSE soft_weights_of(row)
compute_soft_weights_row(row) ==
    IF AnyUndefined(row) THEN CashOnly ELSE soft_weights_of(row)

RECURSIVE Pow(_, _)
Pow(b, e) == IF e = 0 THEN 1 ELSE b * Pow(b, e - 1)
\* The three weights are first reduced by their common factor, which leaves
\* every ratio unchanged and keeps the powers small.
CommonFactor(w) ==
    LET g == GCD(w.w_trend, GCD(w.w_meanrev, w.w_cash))
    IN  IF g = 0 THEN 1 ELSE g
power_normalize_weights_one_higher(w, gamma) ==
    LET g == CommonFactor(w)
        wt == Pow(w.w_trend \div g, gamma + 1)
        wm == Pow(w.w_meanrev \div g, gamma + 1)
        wc == Pow(w.w_cash \div g, gamma + 1)
    IN  [w_trend |-> wt, w_meanrev |-> wm, w_cash |-> wc,
         total |-> wt + wm + wc, scale |-> Pow(w.total \div g, gamma + 1)]
\* w_x ** gamma / (sum of the three powers + eps).
power_normalize_weights(w, gamma) ==
    LET g == CommonFactor(w)
        wt == Pow(w.w_trend \div g, gamma)
        wm == Pow(w.w_meanrev \div g, gamma)
        wc == Pow(w.w_cash \div g, gamma)
    IN  [w_trend |-> wt, w_meanrev |-> wm, w_cash |-> wc,
         total |-> wt + wm + wc, scale |-> Pow(w.total \div g, gamma)]

blend_with_cash(w, trend_raw_ret, meanrev_raw_ret) ==
    w.w_trend * trend_raw_ret + w.w_meanrev * meanrev_raw_ret
        + w.w_cash * trend_raw_ret
\* w_trend * trend_raw_ret + w_meanrev * meanrev_raw_ret, over the vector's
\* denominator.
blend(w, trend_raw_ret, meanrev_raw_ret) ==
    w.w_trend * trend_raw_ret + w.w_meanrev * meanrev_raw_ret

\* The returned columns of a merged row r.
SoftRow(r, gamma) ==
    LET w == power_normalize_weights(compute_soft_weights_row(r), gamma)
    IN  [date |-> r.date,
         w_trend |-> w.w_trend, w_meanrev |-> w.w_meanrev, w_cash |-> w.w_cash,
         total |-> w.total, scale |-> w.scale,
         meta_raw_ret |-> blend(w, r.trend_raw_ret, r.meanrev_raw_ret)]
build_soft_meta_returns(trend_out, meanrev_out, regime_df, gamma) ==
    LET m == sort_values_date(merge_on_date(regime_df, trend_out, meanrev_out))
    IN  [k \in 1..Len(m) |-> SoftRow(m[k], gamma)]

(***************************************************************************)
(* Soft blender inputs.                                                    *)
(***************************************************************************)
SoftFeatureRows ==
    [mom_60 : Feature({-100, 0, 100}),
     mom_20 : Feature({-50, 0, 50}),
     vol_20 : Feature({200, 400, 500, 600}),
     drawdown_60 : Feature({-100, 0})]
\* Weight vectors that sum to exactly 1, in halves and thirds.
UnitVectors ==
    {[w_trend |-> a, w_meanrev |-> b, w_cash |-> d - a - b, total |-> d, scale |-> 0] :
        a \in 0..3, b \in 0..3, d \in 2..3} \cap
    [w_trend : 0..3, w_meanrev : 0..3, w_cash : 0..3, total : 2..3, scale : {0}]
\* Rows of the merged frame: a trending row, an oversold row, a row of high
\* volatility, a row without drawdown and a row without any feature.
SoftSeriesRows ==
    {[mom_60 |-> Num(100), mom_20 |-> Num(50), vol_20 |-> Num(200),
      drawdown_60 |-> Num(0)],
     [mom_60 |-> Num(-100), mom_20 |-> Num(-50), vol_20 |-> Num(400),
      drawdown_60 |-> Num(-100)],
     [mom_60 |-> Num(100), mom_20 |-> Num(0), vol_20 |-> Num(600),
      drawdown_60 |-> Num(0)],
     [mom_60 |-> Num(100), mom_20 |-> Num(50), vol_20 |-> Num(200),
      drawdown_60 |-> NaN],
     NoRow}
SoftGammas == {1, 2}
SoftTables(n) ==
    {[k \in 1..n |-> Dated(f[k], g[k])] : f \in Perms(n), g \in [1..n -> SoftSeriesRows]}

InitSoft ==
    /\ \/ \E row \in SoftFeatureRows :
             /\ soft_call = [row |-> row]
             /\ pc = "soft_row_call"
       \/ \E w \in UnitVectors, gamma \in 1..MaxGamma :
             /\ soft_call = [w |-> w, gamma |-> gamma]
             /\ pc = "power_call"
       \/ \E n \in 1..MaxSoftDates :
             \E df \in SoftTables(n), tr \in [1..n -> {-100, 200}],
                skipT \in {0, 1}, gamma \in SoftGammas :
                   /\ n > 1 \/ skipT = 0
                   /\ soft_call = [regime_df |-> df,
                                   trend_out |-> ReturnTable(n, skipT, tr),
                                   meanrev_out |-> ReturnTable(n, 0, [d \in 1..n |-> 200]),
                                   gamma |-> gamma]
                   /\ pc = "soft_meta_call"
    /\ soft_out = <<>>
    /\ LifeIdle /\ HystIdle /\ MetaIdle /\ VolIdle /\ PortIdle
    /\ BlendIdle /\ GateIdle /\ FinIdle /\ MoreIdle

\* One call compute_soft_weights_row(row).
ComputeSoftWeightsRow ==
    /\ pc = "soft_row_call"
    /\ soft_out' = compute_soft_weights_row(soft_call.row)
    /\ pc' = "soft_row_returned"
    /\ UNCHANGED <<soft_call, blendVars, gateVars, finVars, moreVars>>
    /\ UNCHANGED <<lifeVars, hystVars, metaVars, volVars, portVars>>

\* One call power_normalize_weights(w_trend, w_meanrev, w_cash, gamma).
PowerNormalizeWeights ==
    /\ pc = "power_call"
    /\ soft_out' = power_normalize_weights(soft_call.w, soft_call.gamma)
    /\ pc' = "power_returned"
    /\ UNCHANGED <<soft_call, blendVars, gateVars, finVars, moreVars>>
    /\ UNCHANGED <<lifeVars, hystVars, metaVars, volVars, portVars>>

\* One call build_soft_meta_returns(trend_out, meanrev_out, regime_df, gamma).
BuildSoftMetaReturns ==
    /\ pc = "soft_meta_call"
    /\ soft_out' = build_soft_meta_returns(soft_call.trend_out, soft_call.meanrev_out,
                                           soft_call.regime_df, soft_call.gamma)
    /\ pc' = "soft_meta_returned"
    /\ UNCHANGED <<soft_call, blendVars, gateVars, finVars, moreVars>>
    /\ UNCHANGED <<lifeVars, hystVars, metaVars, volVars, portVars>>

NextSoft == ComputeSoftWeightsRow \/ PowerNormalizeWeights \/ BuildSoftMetaReturns

SpecSoft == InitSoft /\ [][NextSoft]_vars

(***************************************************************************)
(* Reading a weight vector.                                                *)
(***************************************************************************)
\* The three weights sum to 1 within 1e-6:  with s the sum of the three
\* numerators, s / (total + eps * scale) differs from 1 by at most 1e-6.
\* For s = total this is  scale * (10^6 - 1) <= 10^12 * total,  evaluated
\* here without leaving 32 bits.
SumsToOneWithinTolerance(w) ==
    /\ w.w_trend + w.w_meanrev + w.w_cash = w.total
    /\ w.total > 0
    /\ LET excess == w.scale - 1000000 * w.total
       IN  \/ w.total >= 2148
           \/ excess <= 0
           \/ excess <= 2147 /\ 1000000 * excess <= w.scale

(***************************************************************************)
(* C23.  For every feature row with the four features defined, the soft    *)
(* weights w_trend, w_meanrev, w_cash of compute_soft_weights_row are each *)
(* >= 0 and sum to 1 within floating tolerance.                            *)
(***************************************************************************)
C23_SoftWeightsSumToOne ==
    (pc = "soft_row_returned" /\ ~AnyUndefined(soft_call.row))
    => /\ soft_out.w_trend >= 0 /\ soft_out.w_meanrev >= 0 /\ soft_out.w_cash >= 0
       /\ SumsToOneWithinTolerance(soft_out)

\* A defined row whose three weights are all positive: 0.42, 0.10 and 0.586
\* over their sum 1.106 + eps.
C23_Witness ==
    /\ pc = "soft_row_returned"
    /\ soft_call.row = [mom_60 |-> Num(100), mom_20 |-> Num(50),
                        vol_20 |-> Num(400), drawdown_60 |-> Num(0)]
    /\ soft_out = [w_trend |-> 4200, w_meanrev |-> 1000, w_cash |-> 5860,
                   total |-> 11060, scale |-> 10000]

PowerReturned == pc = "power_returned"
InputWeights == <<soft_call.w.w_trend, soft_call.w.w_meanrev, soft_call.w.w_cash>>
OutputWeights == <<soft_out.w_trend, soft_out.w_meanrev, soft_out.w_cash>>

(***************************************************************************)
(* C24.  For every non-negative weight vector that sums to 1 and every     *)
(* gamma >= 1, however large, the output of power_normalize_weights (each  *)
(* weight to the power gamma, over the sum of the three powers plus        *)
(* eps = 1e-12) again sums to 1 within floating tolerance.                 *)
(***************************************************************************)
C24_PowerWeightsSumToOne ==
    PowerReturned => SumsToOneWithinTolerance(soft_out)

\* What the code does: the output sums to P / (P + eps) with P the sum of the
\* three powers, which is within 1e-6 of 1 exactly when P >= 1e-6 (up to a
\* relative 1e-6).  The uniform vector has P = 3 ** (1 - gamma).
PowerSumIsPOverPPlusEps ==
    PowerReturned
    => /\ soft_out.w_trend + soft_out.w_meanrev + soft_out.w_cash = soft_out.total
       /\ soft_out.scale = Pow(soft_call.w.total \div CommonFactor(soft_call.w),
                               soft_call.gamma)
       /\ (soft_call.w.w_trend = soft_call.w.w_cash
             /\ soft_call.w.w_meanrev = soft_call.w.w_cash)
          => (SumsToOneWithinTolerance(soft_out) <=> soft_call.gamma <= 13)

(***************************************************************************)
(* C27.  With gamma = 1 power_normalize_weights leaves a vector that sums  *)
(* to 1 unchanged up to the 1e-12 eps term, the ratios of the weights      *)
(* exactly; with gamma > 1 the ordering of the three weights is kept.      *)
(***************************************************************************)
C27_GammaOneIsIdentity ==
    PowerReturned
    => /\ soft_call.gamma = 1
            => /\ \A j \in 1..3 :
                     OutputWeights[j] * soft_call.w.total
                        = InputWeights[j] * soft_out.total
               /\ soft_out.scale = soft_out.total
               /\ \A j, k \in 1..3 :
                     OutputWeights[j] * InputWeights[k]
                        = OutputWeights[k] * InputWeights[j]
       /\ \A j, k \in 1..3 :
             /\ InputWeights[j] < InputWeights[k] => OutputWeights[j] < OutputWeights[k]
             /\ InputWeights[j] = InputWeights[k] => OutputWeights[j] = OutputWeights[k]

\* [1/3, 2/3, 0] comes back as [1, 2, 0] / (3 + 3 eps) with gamma = 1.
C27_Witness ==
    /\ PowerReturned
    /\ soft_call.gamma = 1
    /\ soft_call.w = [w_trend |-> 1, w_meanrev |-> 2, w_cash |-> 0,
                      total |-> 3, scale |-> 0]
    /\ soft_out = [w_trend |-> 1, w_meanrev |-> 2, w_cash |-> 0,
                   total |-> 3, scale |-> 3]
\* [1/3, 2/3, 0] with gamma = 3 becomes [1, 8, 0] / (9 + 27 eps): sharper, in
\* the same order.
SharpenedKeepsOrder ==
    /\ PowerReturned
    /\ soft_call.gamma = 3
    /\ soft_call.w.w_trend = 1 /\ soft_call.w.w_meanrev = 2 /\ soft_call.w.total = 3
    /\ soft_out = [w_trend |-> 1, w_meanrev |-> 8, w_cash |-> 0,
                   total |-> 9, scale |-> 27]

SoftMetaReturned == pc = "soft_meta_returned"
\* The row of regime_df that became the k-th row of the result.
SoftInputRow(k) == RowOfDate(soft_call.regime_df, soft_out[k].date)
SoftTrendRet(k) == RowOfDate(soft_call.trend_out, soft_out[k].date).raw_ret
SoftMeanrevRet(k) == RowOfDate(soft_call.meanrev_out, soft_out[k].date).raw_ret

(***************************************************************************)
(* C25.  compute_soft_weights_row returns the cash-only vector             *)
(* {w_trend 0, w_meanrev 0, w_cash 1} whenever any of the four features is *)
(* undefined; build_soft_meta_returns then reports w_trend = 0,            *)
(* w_meanrev = 0 and meta_raw_ret = 0 on that date for every gamma, and a  *)
(* series whose leading rows are all undefined is cash-only on all of      *)
(* them.                                                                   *)
(***************************************************************************)
C25_UndefinedRowIsCashOnly ==
    /\ (pc = "soft_row_returned" /\ AnyUndefined(soft_call.row))
          => soft_out = CashOnly
    /\ (PowerReturned /\ soft_call.w.w_trend = 0 /\ soft_call.w.w_meanrev = 0)
          => /\ soft_out.w_trend = 0 /\ soft_out.w_meanrev = 0
             /\ soft_out.w_cash = 1 /\ soft_out.total = 1 /\ soft_out.scale = 1
    /\ SoftMetaReturned
          => \A k \in 1..Len(soft_out) :
                AnyUndefined(SoftInputRow(k))
                   => /\ soft_out[k].w_trend = 0
                      /\ soft_out[k].w_meanrev = 0
                      /\ soft_out[k].w_cash = 1
                      /\ soft_out[k].meta_raw_ret = 0

\* A series of two dates: on the first only the drawdown is undefined, on
\* the second every feature; gamma = 2; both dates are cash-only although
\* both sleeves have a non-zero return.
C25_Witness ==
    /\ SoftMetaReturned
    /\ soft_call.gamma = 2
    /\ Len(soft_out) = 2
    /\ isna(SoftInputRow(1).drawdown_60) /\ ~isna(SoftInputRow(1).mom_60)
    /\ isna(SoftInputRow(2).mom_60)
    /\ \A k \in 1..2 :
          /\ SoftTrendRet(k) # 0 /\ SoftMeanrevRet(k) # 0
          /\ soft_out[k].w_trend = 0 /\ soft_out[k].w_meanrev = 0
          /\ soft_out[k].meta_raw_ret = 0
\* The cash-only vector through power_normalize_weights at the largest gamma.
CashOnlyAtLargeGamma ==
    /\ PowerReturned
    /\ soft_call.gamma = MaxGamma
    /\ soft_call.w.w_trend = 0 /\ soft_call.w.w_meanrev = 0
    /\ soft_out.w_trend = 0 /\ soft_out.w_meanrev = 0 /\ soft_out.w_cash = 1

MaxGateRows == 2
MaxFinalizeRows == 2

DEFAULT_GATE_PARAMS ==
    [max_vol_20_global |-> 600, trend_min_mom60 |-> 0, mr_max_abs_mom60 |-> 100]

require_columns_but_date(columns, cols) ==
    SelectSeq(cols, LAMBDA c : c \notin columns /\ c # "date")
\* The list "missing" of _require_columns, in the order of cols.
require_columns(columns, cols) == SelectSeq(cols, LAMBDA c : c \notin columns)

abs(x) == IF x.nan THEN NaN ELSE Num(IF x.v < 0 THEN -x.v ELSE x.v)
safe_env_inclusive(row, p) == ~row.vol_20.nan /\ row.vol_20.v <= p.max_vol_20_global
\* (df["vol_20"] < p["max_vol_20_global"]).fillna(False)
safe_env(row, p) == Lt(row.vol_20, p.max_vol_20_global)
GateRow(row, p) ==
    [date |-> row.date,
     trend_allowed |-> safe_env(row, p) /\ Gt(row.mom_60, p.trend_min_mom60),
     meanrev_allowed |-> safe_env(row, p) /\ Lt(abs(row.mom_60), p.mr_max_abs_mom60)]
build_strategy_gates_v1(columns, regime_df, p) ==
    LET missing == require_columns(columns, <<"date", "mom_60", "vol_20">>)
    IN  IF missing # <<>>
        THEN [error |-> "ValueError", missing |-> missing, rows |-> <<>>]
        ELSE [error |-> "none", missing |-> <<>>,
              rows |-> [k \in 1..Len(regime_df) |-> GateRow(regime_df[k], p)]]

\* out["position"].clip(0.0, 1.0), in halves.
clip_position(x) == IF x < 0 THEN 0 ELSE IF x > 2 THEN 2 ELSE x
\* gross_ret - costs on row t of the sorted frame: the position of the day
\* before earns today's close-to-close return, and the change of position
\* pays cost_per_side_bps / 10000 per unit; both are 0 on the first row.
raw_ret_of_same_day(out, t, cost_per_side_bps) ==
    IF t = 1 THEN Rat(0, 1)
    ELSE LET before == clip_position(out[t - 1].position)
             now == clip_position(out[t].position)
             turnover == IF now >= before THEN now - before ELSE before - now
             close == out[t - 1].adj_close
         IN  Rat(now * (out[t].adj_close - close) * 10000
                     - turnover * cost_per_side_bps * close,
                 20000 * close)
raw_ret(out, t, cost_per_side_bps) ==
    IF t = 1 THEN Rat(0, 1)
    ELSE LET before == clip_position(out[t - 1].position)
             now == clip_position(out[t].position)
             turnover == IF now >= before THEN now - before ELSE before - now
             close == out[t - 1].adj_close
         IN  Rat(before * (out[t].adj_close - close) * 10000
                     - turnover * cost_per_side_bps * close,
                 20000 * close)
required_but_position(columns) == {"date", "adj_close"} \ columns
\* required - set(df.columns)
required(columns) == {"date", "adj_close", "position"} \ columns
finalize_strategy_output(columns, df, strategy_name, cost_per_side_bps) ==
    LET missing == required(columns)
        out == sort_values_date(df)
    IN  IF missing # {}
        THEN [error |-> "ValueError", missing |-> missing, rows |-> <<>>]
        ELSE [error |-> "none", missing |-> {},
              rows |-> [t \in 1..Len(out) |->
                          [date |-> out[t].date,
                           position |-> clip_position(out[t].position),
                           raw_ret |-> raw_ret(out, t, cost_per_side_bps),
                           strategy_name |-> strategy_name]]]

(***************************************************************************)
(* Inputs: regime frames and sleeve frames with any subset of the required *)
(* columns.                                                                *)
(***************************************************************************)
GateFeatureRows ==
    [mom_60 : Feature({-100, 0, 50, 100}), vol_20 : Feature({500, 600})]
GateTables(n) ==
    {[k \in 1..n |-> [date |-> k, mom_60 |-> g[k].mom_60, vol_20 |-> g[k].vol_20]] :
        g \in [1..n -> GateFeatureRows]}
SleeveRows == [adj_close : {100, 110}, position : {-1, 0, 1, 2, 3}]
SleeveTables(n) ==
    {[k \in 1..n |-> [date |-> f[k], adj_close |-> g[k].adj_close,
                      position |-> g[k].position]] :
        f \in Perms(n), g \in [1..n -> SleeveRows]}

InitColumns ==
    /\ \/ /\ \E n \in 0..MaxGateRows :
                \E df \in GateTables(n), cols \in SUBSET {"date", "mom_60", "vol_20"} :
                   gate_call = [columns |-> cols, regime_df |-> df,
                                p |-> DEFAULT_GATE_PARAMS]
          /\ pc = "gates_call"
          /\ FinIdle
       \/ /\ \E n \in 0..MaxFinalizeRows :
                \E df \in SleeveTables(n),
                   cols \in SUBSET {"date", "adj_close", "position"} :
                   fin_call = [columns |-> cols, df |-> df,
                               strategy_name |-> "trend_v1",
                               cost_per_side_bps |-> 5]
          /\ pc = "finalize_call"
          /\ fin_out = <<>>
          /\ gate_call = [columns |-> {}, regime_df |-> <<>>,
                          p |-> [max_vol_20_global |-> 0, trend_min_mom60 |-> 0,
                                 mr_max_abs_mom60 |-> 0]]
    /\ gate_out = <<>>
    /\ LifeIdle /\ HystIdle /\ MetaIdle /\ VolIdle /\ PortIdle
    /\ BlendIdle /\ SoftIdle /\ MoreIdle

\* One call build_strategy_gates_v1(regime_df, p).
BuildStrategyGates ==
    /\ pc = "gates_call"
    /\ gate_out' = build_strategy_gates_v1(gate_call.columns, gate_call.regime_df,
                                           gate_call.p)
    /\ pc' = "gates_returned"
    /\ UNCHANGED <<gate_call, blendVars, softVars, finVars, moreVars>>
    /\ UNCHANGED <<lifeVars, hystVars, metaVars, volVars, portVars>>

\* One call finalize_strategy_output(df, strategy_name).
FinalizeStrategyOutput ==
    /\ pc = "finalize_call"
    /\ fin_out' = finalize_strategy_output(fin_call.columns, fin_call.df,
                                           fin_call.strategy_name,
                                           fin_call.cost_per_side_bps)
    /\ pc' = "finalize_returned"
    /\ UNCHANGED <<fin_call, blendVars, softVars, gateVars, moreVars>>
    /\ UNCHANGED <<lifeVars, hystVars, metaVars, volVars, portVars>>

NextColumns == BuildStrategyGates \/ FinalizeStrategyOutput

SpecColumns == InitColumns /\ [][NextColumns]_vars

GatesReturned == pc = "gates_returned"
FinalizeReturned == pc = "finalize_returned"

(***************************************************************************)
(* C28.  For every row: trend_allowed = (vol_20 < max_vol_20_global) and   *)
(* (mom_60 > trend_min_mom60); meanrev_allowed = (vol_20 <                 *)
(* max_vol_20_global) and (|mom_60| < mr_max_abs_mom60); an undefined      *)
(* vol_20 or mom_60 makes both False and never raises; both are False      *)
(* whenever vol_20 >= max_vol_20_global.                                   *)
(***************************************************************************)
C28_GateFormulas ==
    (GatesReturned /\ {"date", "mom_60", "vol_20"} \subseteq gate_call.columns)
    => /\ gate_out.error = "none"
       /\ Len(gate_out.rows) = Len(gate_call.regime_df)
       /\ \A k \in 1..Len(gate_out.rows) :
             LET row == gate_call.regime_df[k]
                 g == gate_out.rows[k]
                 p == gate_call.p
             IN  /\ g.date = row.date
                 /\ (row.vol_20.nan \/ row.mom_60.nan)
                       => (~g.trend_allowed /\ ~g.meanrev_allowed)
                 /\ (~row.vol_20.nan /\ ~row.mom_60.nan)
                       => /\ g.trend_allowed
                                <=> (row.vol_20.v < p.max_vol_20_global
                                        /\ row.mom_60.v > p.trend_min_mom60)
                          /\ g.meanrev_allowed
                                <=> (row.vol_20.v < p.max_vol_20_global
                                        /\ row.mom_60.v < p.mr_max_abs_mom60
                                        /\ -row.mom_60.v < p.mr_max_abs_mom60)
                 /\ (~row.vol_20.nan /\ row.vol_20.v >= p.max_vol_20_global)
                       => (~g.trend_allowed /\ ~g.meanrev_allowed)

\* Two rows: calm with a small positive momentum, where both gates are
\* open, and volatility exactly at the maximum, where both are closed.
C28_Witness ==
    /\ GatesReturned
    /\ gate_out.error = "none"
    /\ Len(gate_out.rows) = 2
    /\ gate_call.regime_df[1].vol_20 = Num(500)
    /\ gate_call.regime_df[1].mom_60 = Num(50)
    /\ gate_out.rows[1].trend_allowed /\ gate_out.rows[1].meanrev_allowed
    /\ gate_call.regime_df[2].vol_20 = Num(600)
    /\ gate_call.regime_df[2].mom_60 = Num(50)
    /\ ~gate_out.rows[2].trend_allowed /\ ~gate_out.rows[2].meanrev_allowed
\* A row with an undefined momentum closes both gates without an error.
UndefinedMomentumClosesGates ==
    /\ GatesReturned
    /\ gate_out.error = "none"
    /\ \E k \in 1..Len(gate_out.rows) :
          /\ gate_call.regime_df[k].mom_60.nan
          /\ gate_call.regime_df[k].vol_20 = Num(500)
          /\ ~gate_out.rows[k].trend_allowed /\ ~gate_out.rows[k].meanrev_allowed

(***************************************************************************)
(* C30.  A frame that lacks a required column is rejected with a           *)
(* ValueError naming the missing columns before anything is computed:      *)
(* build_strategy_gates_v1 on a regime frame without date, mom_60 or       *)
(* vol_20, finalize_strategy_output on a sleeve frame without date, the    *)
(* price column or the position column.                                    *)
(***************************************************************************)
C30_MissingColumnRejected ==
    /\ GatesReturned
          => LET lacking == {"date", "mom_60", "vol_20"} \ gate_call.columns
             IN  IF lacking # {}
                 THEN /\ gate_out.error = "ValueError"
                      /\ {gate_out.missing[k] : k \in 1..Len(gate_out.missing)} = lacking
                      /\ gate_out.rows = <<>>
                 ELSE gate_out.error = "none"
    /\ FinalizeReturned
          => LET lacking == {"date", "adj_close", "position"} \ fin_call.columns
             IN  IF lacking # {}
                 THEN /\ fin_out.error = "ValueError"
                      /\ fin_out.missing = lacking
                      /\ fin_out.rows = <<>>
                 ELSE fin_out.error = "none"

\* A sleeve frame of two rows without its date column.
C30_Witness ==
    /\ FinalizeReturned
    /\ fin_call.columns = {"adj_close", "position"}
    /\ Len(fin_call.df) = 2
    /\ fin_out = [error |-> "ValueError", missing |-> {"date"}, rows |-> <<>>]
\* A regime frame of two rows with the date column only.
GatesWithoutFeaturesRejected ==
    /\ GatesReturned
    /\ gate_call.columns = {"date"}
    /\ Len(gate_call.regime_df) = 2
    /\ gate_out = [error |-> "ValueError", missing |-> <<"mom_60", "vol_20">>,
                   rows |-> <<>>]

(***************************************************************************)
(* The gates next to the allocators: the same regime frame and the same    *)
(* sleeve outputs go to build_strategy_gates_v1, to                        *)
(* build_meta_raw_returns_hysteresis_v1 and to build_soft_meta_returns.    *)
(* No function of the sources takes the gates' frame as an argument.       *)
(***************************************************************************)
\* A trending row of high volatility, an oversold row after a fall of 10%,
\* a calm trending row, a flat row and a row without features.
VetoRows ==
    {[mom_60 |-> Num(100), mom_20 |-> Num(0), vol_20 |-> Num(600),
      drawdown_60 |-> Num(0)],
     [mom_60 |-> Num(-100), mom_20 |-> Num(-50), vol_20 |-> Num(200),
      drawdown_60 |-> Num(-100)],
     [mom_60 |-> Num(100), mom_20 |-> Num(50), vol_20 |-> Num(200),
      drawdown_60 |-> Num(0)],
     [mom_60 |-> Num(0), mom_20 |-> Num(0), vol_20 |-> Num(400),
      drawdown_60 |-> Num(0)],
     NoRow}
VetoTables(n) == {[k \in 1..n |-> Dated(k, g[k])] : g \in [1..n -> VetoRows]}

InitVeto ==
    /\ \E n \in 1..MaxGateRows :
          \E df \in VetoTables(n), gamma \in SoftGammas :
             LET trend_out == ReturnTable(n, 0, [d \in 1..n |-> 200])
                 meanrev_out == ReturnTable(n, 0, [d \in 1..n |-> 100])
             IN  /\ gate_call = [columns |-> {"date", "mom_60", "mom_20", "vol_20",
                                              "drawdown_60"},
                                 regime_df |-> df, p |-> DEFAULT_GATE_PARAMS]
                 /\ MetaStart(df, trend_out, meanrev_out)
                 /\ soft_call = [regime_df |-> df, trend_out |-> trend_out,
                                 meanrev_out |-> meanrev_out, gamma |-> gamma]
    /\ HystStart(DEFAULT_HYST_PARAMS, "gates_call")
    /\ gate_out = <<>>
    /\ soft_out = <<>>
    /\ LifeIdle /\ VolIdle /\ PortIdle /\ BlendIdle /\ FinIdle /\ MoreIdle

\* build_meta_raw_returns_hysteresis_v1 on the frame the gates were built
\* from.
BuildMetaHysteresisAfterGates ==
    /\ pc = "gates_returned"
    /\ meta_call.regime_df # <<>>
    /\ merged' = build_meta_raw_returns_hysteresis_v1(
                     meta_call.trend_out, meta_call.meanrev_out,
                     meta_call.regime_df, params)
    /\ pc' = "gated_hysteresis_returned"
    /\ UNCHANGED <<meta_call, state_series, lifeVars, hystVars, volVars, portVars>>
    /\ UNCHANGED restVars

\* build_soft_meta_returns on the same frame.
BuildSoftMetaReturnsAfterGates ==
    /\ pc = "gated_hysteresis_returned"
    /\ soft_out' = build_soft_meta_returns(soft_call.trend_out, soft_call.meanrev_out,
                                           soft_call.regime_df, soft_call.gamma)
    /\ pc' = "gated_soft_returned"
    /\ UNCHANGED <<soft_call, blendVars, gateVars, finVars, moreVars>>
    /\ UNCHANGED <<lifeVars, hystVars, metaVars, volVars, portVars>>

NextVeto ==
    \/ BuildStrategyGates
    \/ BuildMetaHysteresisAfterGates
    \/ BuildSoftMetaReturnsAfterGates

SpecVeto == InitVeto /\ [][NextVeto]_vars

AllReturned == pc = "gated_soft_returned"

(***************************************************************************)
(* C29.  A strategy whose gate is False on a date is vetoed whatever the   *)
(* allocator decides: on every date on which trend_allowed is False the    *)
(* meta return takes nothing from the trend strategy (the hard state is    *)
(* not TREND and the soft trend weight is 0), and likewise for             *)
(* meanrev_allowed and the mean-reversion strategy.                        *)
(***************************************************************************)
C29_ClosedGateVetoes ==
    AllReturned
    => \A k \in 1..Len(gate_out.rows) :
          /\ ~gate_out.rows[k].trend_allowed
                => (merged[k].state # TREND /\ soft_out[k].w_trend = 0)
          /\ ~gate_out.rows[k].meanrev_allowed
                => (merged[k].state # MEANREV /\ soft_out[k].w_meanrev = 0)

\* What the code does: the allocators' results are those of the regime
\* frame and the sleeves alone; with volatility at the gates' maximum and a
\* positive momentum the trend gate is closed while the hard state is TREND
\* and the meta return is the trend return.
ClosedGateYetTrend ==
    /\ AllReturned
    /\ \E k \in 1..Len(gate_out.rows) :
          /\ gate_call.regime_df[k].vol_20 = Num(600)
          /\ ~gate_out.rows[k].trend_allowed
          /\ merged[k].state = TREND
          /\ merged[k].meta_raw_ret = 200
          /\ soft_out[k].w_trend > 0
\* The soft weights of a row with its features defined are all positive,
\* whatever the gates say.
SoftWeightsIgnoreGates ==
    AllReturned
    => \A k \in 1..Len(soft_out) :
          ~AnyUndefined(soft_call.regime_df[k])
             => (soft_out[k].w_trend > 0 /\ soft_out[k].w_meanrev > 0)

(***************************************************************************)
(* The same run under another hold_days: the record of date k when the     *)
(* loop is run over the same rows and thresholds with hold_days = h.       *)
(***************************************************************************)
WithHold(h) == [cfg EXCEPT !.hold_days = h]
RecordWithHold(h, k) ==
    LifeStep(RunTo(test, thr, WithHold(h), k - 1), test[k], thr, WithHold(h))
FixedSize == cfg.variant = "meanrev"

(***************************************************************************)
(* C37.  hold_days = 0 behaves exactly as hold_days = 1: every date has    *)
(* the position, cost, net return, entry and exit of the run with          *)
(* hold_days = 1; an entry of the fixed-size loop at date t holds the      *)
(* position on t and exits on t+1, charging the entry and the exit cost;   *)
(* and under no hold_days is the position 0 on its own entry date.         *)
(***************************************************************************)
C37_ZeroHoldIsOneDay ==
    /\ cfg.hold_days = 0
          => \A k \in 1..Len(bt) :
                LET one == RecordWithHold(1, k)
                IN  /\ bt[k].position = one.position
                    /\ bt[k].trade_cost = one.trade_cost
                    /\ bt[k].net_ret = one.net_ret
                    /\ bt[k].is_entry = one.is_entry
                    /\ bt[k].is_exit = one.is_exit
    /\ (FixedSize /\ cfg.hold_days = 0)
          => \A t \in 1..(Len(bt) - 1) :
                bt[t].is_entry
                => /\ bt[t].position = One
                   /\ bt[t].trade_cost = Scale(One, CostBps)
                   /\ bt[t + 1].is_exit
                   /\ IsZero(bt[t + 1].position)
                   /\ bt[t + 1].trade_cost = Scale(One, CostBps)
    /\ FixedSize
          => \A t \in 1..Len(bt) : bt[t].is_entry => IsPositive(bt[t].position)

\* An entry with hold_days = 0, its exit on the next date and the re-entry
\* on the date after.
C37_Witness ==
    /\ FixedSize
    /\ cfg.hold_days = 0
    /\ Len(bt) >= 3
    /\ bt[1].is_entry /\ bt[2].is_exit /\ bt[3].is_entry

(***************************************************************************)
(* C40.  The loop never force-closes at the end of the series: an entry    *)
(* that fires fewer than hold_days dates before the last row leaves the    *)
(* position non-zero on the last row, and the only cost charged from the   *)
(* entry date on is the entry cost p * cost_rate.                          *)
(***************************************************************************)
OpenAtEnd(t) == bt[t].is_entry /\ Len(test) - t < cfg.hold_days
C40_NoForcedClose ==
    pc = "done"
    => \A t \in 1..Len(bt) :
          OpenAtEnd(t)
          => /\ IsPositive(bt[Len(bt)].position)
             /\ CostFromTo(t, Len(bt)) = Scale(bt[t].position, CostBps)

\* What the loop does keep: every late entry of non-zero size is still held,
\* at its entry size, on the last row, with the entry cost alone charged and
\* no exit on any date from the entry on.
NoForcedCloseOfNonZeroEntry ==
    pc = "done"
    => \A t \in 1..Len(bt) :
          (OpenAtEnd(t) /\ IsPositive(bt[t].position))
          => /\ bt[Len(bt)].position = bt[t].position
             /\ CostFromTo(t, Len(bt)) = Scale(bt[t].position, CostBps)
             /\ \A k \in t..Len(bt) : ~bt[k].is_exit
LateEntryOfNonZeroSize ==
    /\ pc = "done"
    /\ Len(bt) >= 3
    /\ cfg.hold_days = 2
    /\ bt[Len(bt) - 1].is_entry
    /\ bt[Len(bt) - 1].position.f > 0

(***************************************************************************)
(* C34.  No error on degenerate input: with the entry gates false on every *)
(* date the position and the net return are 0 on every date, and a table   *)
(* of zero rows gives an empty result, not an exception.                   *)
(***************************************************************************)
Raised == pc \in {"KeyError", "ValueError"}
AllGatesFalse == \A k \in 1..Len(bt) : ~bt[k].gates
C34_NoErrorOnDegenerateInput ==
    /\ AllGatesFalse
          => \A k \in 1..Len(bt) : IsZero(bt[k].position) /\ IsZero(bt[k].net_ret)
    /\ (AllGatesFalse \/ Len(test) = 0) => ~Raised

\* What the routines do keep: a table with rows whose gates are all false
\* gives a flat, cost-free result and returns.
AllFalseGatesStayFlat ==
    (AllGatesFalse /\ Len(test) > 0)
    => /\ \A k \in 1..Len(bt) :
             /\ IsZero(bt[k].position)
             /\ IsZero(bt[k].trade_cost)
             /\ IsZero(bt[k].net_ret)
       /\ ~Raised
FlatRunReturned ==
    /\ AllGatesFalse
    /\ Len(bt) = MaxRows
    /\ pc = "done"
\* Only the table of no rows raises.
RaisedOnlyOnEmptyTable == Raised <=> (Len(test) = 0 /\ pc # "loop")

(***************************************************************************)
(* The lifecycle routine over several symbols: the outer loop              *)
(*     for symbol, sdf in test.groupby("symbol")                           *)
(* around the per-row loop.  Thresholds are computed once from the whole   *)
(* table; order is the order in which the groups are visited.              *)
(***************************************************************************)
MaxSymbolRows == 2
Symbols == {"A", "B"}
SymbolVariants == {"meanrev", "walkforward"}
SymbolGateRows(variant) ==
    CASE variant = "meanrev" ->
            [rvol_10 : {1}, ret_5d : Ret5Vals, ret_20d : {100}, prediction : {0}]
      [] variant = "walkforward" ->
            [rvol_10 : {1}, ret_5d : {-200}, ret_20d : {100}, prediction : PredVals]
\* A group of groupby has at least one row.
SymbolTables(variant) ==
    {WithReturns(g) :
        g \in UNION {[1..n -> SymbolGateRows(variant)] : n \in 1..MaxSymbolRows}}
SymbolOrders == {<<"A", "B">>, <<"B", "A">>}

RECURSIVE AllRows(_, _, _)
AllRows(tables, order, k) ==
    IF k = 0 THEN <<>> ELSE AllRows(tables, order, k - 1) \o tables[order[k]]

\* position = 0.0; days_left = 0 at the top of each symbol's pass.
carry_over(st) == st
reset(st) == [position |-> Zero, days_left |-> 0]

InitSymbols ==
    /\ \E v \in SymbolVariants, h \in 0..MaxHold, o \in SymbolOrders :
          \E ta \in SymbolTables(v), tb \in SymbolTables(v) :
             LET tables == [A |-> ta, B |-> tb]
                 c == [variant |-> v, hold_days |-> h]
             IN  sym_call = [tables |-> tables, order |-> o, cfg |-> c,
                             thr |-> Thresholds(AllRows(tables, o, Len(o)), c)]
    /\ sym_run = [k |-> 0, i |-> 0, position |-> Zero, days_left |-> 0,
                  records |-> <<>>]
    /\ GenIdle /\ WinIdle
    /\ pc = "symbols"
    /\ LifeIdle /\ HystIdle /\ MetaIdle /\ VolIdle /\ PortIdle
    /\ BlendIdle /\ SoftIdle /\ GateIdle /\ FinIdle

CurrentTable == sym_call.tables[sym_call.order[sym_run.k]]
SymbolDone == IF sym_run.k = 0 THEN TRUE ELSE sym_run.i = Len(CurrentTable)

\* The head of the outer loop: the next group, and the two assignments.
StartSymbol ==
    /\ pc = "symbols"
    /\ SymbolDone
    /\ sym_run.k < Len(sym_call.order)
    /\ LET st == reset([position |-> sym_run.position,
                        days_left |-> sym_run.days_left])
       IN  sym_run' = [sym_run EXCEPT !.k = @ + 1, !.i = 0,
                                      !.position = st.position,
                                      !.days_left = st.days_left]
    /\ UNCHANGED <<sym_call, genVars, winVars, pc>>
    /\ UNCHANGED <<lifeVars, hystVars, metaVars, volVars, portVars>>
    /\ UNCHANGED <<blendVars, softVars, gateVars, finVars>>

\* One pass of the inner loop.
ProcessSymbolRow ==
    /\ pc = "symbols"
    /\ sym_run.k >= 1
    /\ sym_run.i < Len(CurrentTable)
    /\ LET r == LifeStep([position |-> sym_run.position,
                          days_left |-> sym_run.days_left],
                         CurrentTable[sym_run.i + 1], sym_call.thr, sym_call.cfg)
       IN  sym_run' = [sym_run EXCEPT
                          !.i = @ + 1,
                          !.position = r.position,
                          !.days_left = r.days_left,
                          !.records = Append(@, [symbol |-> sym_call.order[sym_run.k],
                                                 row |-> sym_run.i + 1,
                                                 rec |-> r])]
    /\ UNCHANGED <<sym_call, genVars, winVars, pc>>
    /\ UNCHANGED <<lifeVars, hystVars, metaVars, volVars, portVars>>
    /\ UNCHANGED <<blendVars, softVars, gateVars, finVars>>

FinishSymbols ==
    /\ pc = "symbols"
    /\ sym_run.k = Len(sym_call.order)
    /\ SymbolDone
    /\ pc' = Outcome(sym_call.cfg,
                     AllRows(sym_call.tables, sym_call.order, Len(sym_call.order)),
                     sym_run.records)
    /\ UNCHANGED <<symVars, genVars, winVars>>
    /\ UNCHANGED <<lifeVars, hystVars, metaVars, volVars, portVars>>
    /\ UNCHANGED <<blendVars, softVars, gateVars, finVars>>

NextSymbols == StartSymbol \/ ProcessSymbolRow \/ FinishSymbols

SpecSymbols == InitSymbols /\ [][NextSymbols]_vars

\* The record of row j of symbol s when s is run alone, from (0, 0), under
\* the same thresholds.
Isolated(s, j) ==
    LifeStep(RunTo(sym_call.tables[s], sym_call.thr, sym_call.cfg, j - 1),
             sym_call.tables[s][j], sym_call.thr, sym_call.cfg)

(***************************************************************************)
(* C31.  Each symbol starts from (position, days_left) = (0, 0) and its    *)
(* records are those of the symbol run alone under the same thresholds,    *)
(* whatever the order in which the symbols are visited.                    *)
(***************************************************************************)
C31_SymbolsIsolated ==
    /\ (sym_run.k >= 1 /\ sym_run.i = 0)
          => (IsZero(sym_run.position) /\ sym_run.days_left = 0)
    /\ \A n \in 1..Len(sym_run.records) :
          LET e == sym_run.records[n]
              alone == Isolated(e.symbol, e.row)
          IN  /\ e.rec.position = alone.position
              /\ e.rec.net_ret = alone.net_ret
              /\ e.rec.days_left = alone.days_left

\* The first symbol ends holding a position with days_left > 0, and the
\* second symbol enters on its first row.
C31_Witness ==
    /\ pc = "done"
    /\ \E n \in 1..(Len(sym_run.records) - 1) :
          /\ sym_run.records[n].symbol # sym_run.records[n + 1].symbol
          /\ IsPositive(sym_run.records[n].rec.position)
          /\ sym_run.records[n].rec.days_left > 0
          /\ sym_run.records[n + 1].rec.is_entry

(***************************************************************************)
(* The Phase-2 position generators, generate_meanrev_positions and         *)
(* generate_trend_positions.  Both run the same loop over can_enter, the   *)
(* boolean entry signal they derive from the features (an undefined        *)
(* feature gives False); the loop is all that is modelled of them.         *)
(* Positions are 0 and 1.                                                  *)
(***************************************************************************)
MaxGenRows == 5
MaxGenHold == 2

\* hold_remaining = hold_days - 1: the entry day is day one of the hold.
hold_remaining_full(hold_days) == hold_days
hold_remaining_after_entry(hold_days) == hold_days - 1

\* One pass of the loop body.
GenStep(st, enter, hold_days) ==
    IF st.hold_remaining > 0
    THEN [pos |-> Append(st.pos, 1),
          hold_remaining |-> st.hold_remaining - 1,
          is_entry |-> Append(st.is_entry, FALSE)]
    ELSE IF enter
         THEN [pos |-> Append(st.pos, 1),
               hold_remaining |-> hold_remaining_after_entry(hold_days),
               is_entry |-> Append(st.is_entry, TRUE)]
         ELSE [pos |-> Append(st.pos, 0),
               hold_remaining |-> st.hold_remaining,
               is_entry |-> Append(st.is_entry, FALSE)]

Signals == UNION {[1..n -> BOOLEAN] : n \in 0..MaxGenRows}

InitGenerators ==
    /\ \E s \in Signals, h \in 0..MaxGenHold :
          gen_call = [can_enter |-> s, hold_days |-> h]
    /\ gen_out = [pos |-> <<>>, hold_remaining |-> 0, is_entry |-> <<>>]
    /\ pc = "generate"
    /\ SymIdle /\ WinIdle
    /\ LifeIdle /\ HystIdle /\ MetaIdle /\ VolIdle /\ PortIdle
    /\ BlendIdle /\ SoftIdle /\ GateIdle /\ FinIdle

GenerateRow ==
    /\ pc = "generate"
    /\ Len(gen_out.pos) < Len(gen_call.can_enter)
    /\ gen_out' = GenStep(gen_out, gen_call.can_enter[Len(gen_out.pos) + 1],
                          gen_call.hold_days)
    /\ UNCHANGED <<gen_call, symVars, winVars, pc>>
    /\ UNCHANGED <<lifeVars, hystVars, metaVars, volVars, portVars>>
    /\ UNCHANGED <<blendVars, softVars, gateVars, finVars>>

ReturnPositions ==
    /\ pc = "generate"
    /\ Len(gen_out.pos) = Len(gen_call.can_enter)
    /\ pc' = "generated"
    /\ UNCHANGED <<genVars, symVars, winVars>>
    /\ UNCHANGED <<lifeVars, hystVars, metaVars, volVars, portVars>>
    /\ UNCHANGED <<blendVars, softVars, gateVars, finVars>>

NextGenerators == GenerateRow \/ ReturnPositions

SpecGenerators == InitGenerators /\ [][NextGenerators]_vars

(***************************************************************************)
(* C33.  After an entry at row i with hold_days = h >= 1 the generated     *)
(* position is 1 on rows i..i+h-1 and exactly 0 on row i+h, for every      *)
(* entry-signal sequence.                                                  *)
(***************************************************************************)
C33_GeneratedHoldingPeriod ==
    \A e \in 1..Len(gen_out.pos) :
        (gen_out.is_entry[e] /\ gen_call.hold_days >= 1)
        => \A k \in e..Len(gen_out.pos) :
              /\ k <= e + gen_call.hold_days - 1 => gen_out.pos[k] = 1
              /\ k = e + gen_call.hold_days => gen_out.pos[k] = 0

\* What the generators do keep: the position is 1 on rows i..i+h-1, and row
\* i+h is flat exactly when the entry signal is false on it; with the signal
\* true it is the entry row of the next trade.
GeneratedHoldThenSignal ==
    \A e \in 1..Len(gen_out.pos) :
        (gen_out.is_entry[e] /\ gen_call.hold_days >= 1)
        => \A k \in e..Len(gen_out.pos) :
              /\ k <= e + gen_call.hold_days - 1 => gen_out.pos[k] = 1
              /\ (e < k /\ k <= e + gen_call.hold_days - 1) => ~gen_out.is_entry[k]
              /\ k = e + gen_call.hold_days
                    => /\ gen_out.pos[k] = (IF gen_call.can_enter[k] THEN 1 ELSE 0)
                       /\ gen_out.is_entry[k] = gen_call.can_enter[k]
BackToBackEntries ==
    /\ pc = "generated"
    /\ gen_call.hold_days = 2
    /\ Len(gen_out.pos) >= 4
    /\ gen_out.is_entry[1] /\ gen_out.is_entry[3]
    /\ gen_out.pos[4] = 1

(***************************************************************************)
(* The fixed-size Phase-1 loop on the same entry signal: a table whose     *)
(* gates (vol_ok and oversold) hold exactly on the dates of the signal.    *)
(***************************************************************************)
SignalTable(can_enter) ==
    WithReturns([k \in 1..Len(can_enter) |->
        [rvol_10 |-> 1, ret_5d |-> IF can_enter[k] THEN -300 ELSE -200,
         ret_20d |-> 100, prediction |-> 0]])
Phase1Record(can_enter, hold_days, k) ==
    LET c == [variant |-> "meanrev", hold_days |-> hold_days]
        table == SignalTable(can_enter)
    IN  RunTo(table, Thresholds(table, c), c, k)
Phase1Position(can_enter, hold_days, k) ==
    IF IsPositive(Phase1Record(can_enter, hold_days, k).position) THEN 1 ELSE 0
\* A date that immediately follows a completed holding period (the exit date
\* of the Phase-1 loop) on which the entry signal is true.
SignalAfterHold(k) ==
    /\ Phase1Record(gen_call.can_enter, gen_call.hold_days, k).is_exit
    /\ gen_call.can_enter[k]
Agree(k) ==
    gen_out.pos[k] = Phase1Position(gen_call.can_enter, gen_call.hold_days, k)

(***************************************************************************)
(* C38.  For one entry signal and hold_days = h >= 1 the Phase-1 loop and  *)
(* the Phase-2 generators give the same positions while the signal is      *)
(* false on every date that immediately follows a completed holding        *)
(* period; on the first such date with the signal true Phase 1 is 0 (its   *)
(* exit date) and Phase 2 is 1 (back-to-back re-entry).                    *)
(***************************************************************************)
C38_PhasesAgreeUntilReentry ==
    gen_call.hold_days >= 1
    => \A k \in 1..Len(gen_out.pos) :
          IF \A d \in 1..k : ~SignalAfterHold(d)
          THEN Agree(k)
          ELSE (\A d \in 1..(k - 1) : ~SignalAfterHold(d))
               => /\ Phase1Position(gen_call.can_enter, gen_call.hold_days, k) = 0
                  /\ gen_out.pos[k] = 1

\* Two rows held from an entry on row 1, the signal true on row 3: Phase 1
\* exits there, Phase 2 re-enters.
C38_Witness ==
    /\ pc = "generated"
    /\ gen_call.hold_days = 2
    /\ Len(gen_out.pos) >= 4
    /\ gen_out.is_entry[1]
    /\ SignalAfterHold(3)
    /\ Agree(1) /\ Agree(2) /\ ~Agree(3)
\* A signal with two trades and no date on which the two phases differ.
PhasesAgreeThroughout ==
    /\ pc = "generated"
    /\ gen_call.hold_days = 1
    /\ Len(gen_out.pos) = MaxGenRows
    /\ gen_out.is_entry[1] /\ gen_out.is_entry[3]
    /\ \A k \in 1..Len(gen_out.pos) : Agree(k)

(***************************************************************************)
(* C35.  Under DEFAULT_HYST_PARAMS the transition is idempotent on a       *)
(* repeated row: decide(r, decide(r, s)) = decide(r, s) for every row r    *)
(* and prev_state s; a series over one repeated row is constant from its   *)
(* first date on; and each regime's entry condition excludes its exit      *)
(* condition.                                                              *)
(***************************************************************************)
Repeated(row) == [k \in 1..MaxRegimeRows |-> row]
C35_IdempotentOnRepeatedRow ==
    (Decided /\ params = DEFAULT_HYST_PARAMS)
    => /\ decide_state_hysteresis_v1(regime_row, state, params) = state
       /\ LET s == StatesOf(Repeated(regime_row), MaxRegimeRows, params)
          IN  \A k \in 1..MaxRegimeRows : s[k] = s[1]
       /\ trend_enter(regime_row, params) => ~trend_exit(regime_row, params)
       /\ mr_enter(regime_row, params) => ~mr_exit(regime_row, params)

\* A call that leaves TREND for MEANREV: the row exits the one regime and
\* enters the other, and a second call on it stays in MEANREV.
C35_Witness ==
    /\ Decided
    /\ params = DEFAULT_HYST_PARAMS
    /\ prev_state = TREND
    /\ state = MEANREV

\* With entry thresholds looser than exit thresholds the property is lost.
IdempotentUnderSwappedParams ==
    (Decided /\ params = SWAPPED_HYST_PARAMS)
    => decide_state_hysteresis_v1(regime_row, state, params) = state

(***************************************************************************)
(* C36.  One row with an undefined feature erases the hysteresis memory:   *)
(* the state the loop carries out of it is CASH, so the state of the next  *)
(* row is decide(row, CASH); a classifier that was in TREND (or MEANREV)   *)
(* before the undefined row and whose next row lies inside that regime's   *)
(* dead zone is in CASH, not back in its previous regime.                  *)
(***************************************************************************)
C36_UndefinedRowErasesMemory ==
    /\ (Len(states) >= 1 /\ warmup[Len(states)]) => prev = CASH
    /\ \A k \in 1..Len(states) : warmup[k] => states[k] = CASH
    /\ params = DEFAULT_HYST_PARAMS
          => \A k \in 2..Len(states) :
                (warmup[k - 1] /\ (zone[k].trend \/ zone[k].mr))
                => states[k] = CASH

\* TREND, then an undefined row, then a row in the trend dead zone: CASH.
C36_Witness ==
    /\ params = DEFAULT_HYST_PARAMS
    /\ Len(states) = 3
    /\ states[1] = TREND
    /\ warmup[2]
    /\ zone[3].trend
    /\ states[3] = CASH
\* The same from MEANREV.
MeanrevForgottenAfterGap ==
    /\ params = DEFAULT_HYST_PARAMS
    /\ Len(states) = 3
    /\ states[1] = MEANREV
    /\ warmup[2]
    /\ zone[3].mr
    /\ states[3] = CASH
\* Without the gap the dead zone keeps the regime.
DeadZoneKeepsRegimeWithoutGap ==
    /\ params = DEFAULT_HYST_PARAMS
    /\ Len(states) = 2
    /\ states[1] = TREND
    /\ zone[2].trend
    /\ states[2] = TREND

(***************************************************************************)
(* Reading a finalized sleeve: its rows by date, the prices of the input   *)
(* frame by date.  Positions are in halves, so 2 is a position of 1.0.     *)
(***************************************************************************)
Finalized == FinalizeReturned /\ fin_out.error = "none"
PriceOn(d) == RowOfDate(fin_call.df, d).adj_close
AbsDiff(x, y) == IF x >= y THEN x - y ELSE y - x

(***************************************************************************)
(* C39.  finalize_strategy_output returns the rows in ascending date order *)
(* with position clipped to [0, 1]; on every date t after the first        *)
(*   raw_ret[t] = position[t-1] * (price[t] / price[t-1] - 1)              *)
(*                - |position[t] - position[t-1]| * cost_per_side_bps/10000 *)
(* so a position earns nothing on its own date; on the first date raw_ret  *)
(* is 0 and no cost is charged, even with position[0] > 0.                 *)
(***************************************************************************)
C39_RawReturnOfSleeve ==
    Finalized
    => LET rows == fin_out.rows
       IN  /\ Len(rows) = Len(fin_call.df)
           /\ \A t \in 1..Len(rows) : rows[t].position \in 0..2
           /\ \A t \in 2..Len(rows) : rows[t - 1].date < rows[t].date
           /\ Len(rows) >= 1 => rows[1].raw_ret = Rat(0, 1)
           /\ \A t \in 2..Len(rows) :
                 LET before == PriceOn(rows[t - 1].date)
                     gain == rows[t - 1].position * (PriceOn(rows[t].date) - before)
                     turnover == AbsDiff(rows[t].position, rows[t - 1].position)
                 IN  /\ ~rows[t].raw_ret.nan
                     /\ rows[t].raw_ret
                           = Rat(gain * 10000
                                    - turnover * fin_call.cost_per_side_bps * before,
                                 20000 * before)
                     /\ rows[t - 1].position = 0 => rows[t].raw_ret.num <= 0

\* A frame given in descending date order: position 1.5 (clipped to 1.0) on
\* the first date costs nothing there and earns the 10% rise of the second
\* date, on which the sleeve goes flat and pays one side: 0.1 - 0.0005.
C39_Witness ==
    /\ Finalized
    /\ Len(fin_call.df) = 2
    /\ fin_call.df[1].date = 2
    /\ fin_call.df[2].position = 3
    /\ fin_out.rows[1].position = 2
    /\ fin_out.rows[1].raw_ret = Rat(0, 1)
    /\ fin_out.rows[2].position = 0
    /\ fin_out.rows[2].raw_ret = Rat(199, 2000)
\* A position taken on the date of a rise earns none of it.
EntryOnRiseEarnsNothing ==
    /\ Finalized
    /\ Len(fin_out.rows) = 2
    /\ fin_out.rows[1].position = 0
    /\ fin_out.rows[2].position = 2
    /\ PriceOn(2) > PriceOn(1)
    /\ fin_out.rows[2].raw_ret = Rat(-5, 10000)

(***************************************************************************)
(* Two calls whose inputs differ in one row: apply_vol_targeting on two    *)
(* return series, compute_inverse_vol_weights on two frames.  Any change   *)
(* of several rows is a sequence of such changes.                          *)
(***************************************************************************)
MaxWindowRows == 3
MaxWindowLookback == 2
\* Undefined returns are among RawRets; the frames hold defined ones.
WindowAssetRows == [A : {Num(0), Num(1)}, B : {Num(0), Num(2)}, C : {Num(0)}]
WindowMaxWeights == {NoCap, Cap(60)}

InitWindow ==
    /\ \E n \in 1..MaxWindowRows, lb \in 1..MaxWindowLookback, j \in 1..MaxWindowRows :
          /\ j <= n
          /\ \/ /\ \E s \in [1..n -> RawRets], v \in RawRets, ml \in MaxLeverages \ {0} :
                      win_call = [first |-> s, second |-> [s EXCEPT ![j] = v],
                                  lookback |-> lb, target_vol_annual |-> 100,
                                  max_leverage |-> ml]
                /\ pc = "window_vol_call"
             \/ /\ \E rw \in [1..n -> WindowAssetRows], row \in WindowAssetRows,
                      mw \in WindowMaxWeights :
                      /\ Commensurable(rw, lb)
                      /\ Commensurable([rw EXCEPT ![j] = row], lb)
                      /\ win_call = [first |-> rw, second |-> [rw EXCEPT ![j] = row],
                                     lookback |-> lb, max_weight |-> mw]
                /\ pc = "window_weights_call"
    /\ win_out = [first |-> <<>>, second |-> <<>>]
    /\ SymIdle /\ GenIdle
    /\ LifeIdle /\ HystIdle /\ MetaIdle /\ VolIdle /\ PortIdle
    /\ BlendIdle /\ SoftIdle /\ GateIdle /\ FinIdle

\* apply_vol_targeting on each of the two series.
ApplyVolTargetingToBoth ==
    /\ pc = "window_vol_call"
    /\ win_out' =
          [first |-> apply_vol_targeting(win_call.first, win_call.target_vol_annual,
                                         win_call.lookback, win_call.max_leverage),
           second |-> apply_vol_targeting(win_call.second, win_call.target_vol_annual,
                                          win_call.lookback, win_call.max_leverage)]
    /\ pc' = "window_vol_returned"
    /\ UNCHANGED <<win_call, symVars, genVars>>
    /\ UNCHANGED <<lifeVars, hystVars, metaVars, volVars, portVars>>
    /\ UNCHANGED <<blendVars, softVars, gateVars, finVars>>

\* compute_inverse_vol_weights on each of the two frames.
ComputeInverseVolWeightsOfBoth ==
    /\ pc = "window_weights_call"
    /\ win_out' =
          [first |-> compute_inverse_vol_weights(win_call.first, win_call.lookback,
                                                 win_call.max_weight),
           second |-> compute_inverse_vol_weights(win_call.second, win_call.lookback,
                                                  win_call.max_weight)]
    /\ pc' = "window_weights_returned"
    /\ UNCHANGED <<win_call, symVars, genVars>>
    /\ UNCHANGED <<lifeVars, hystVars, metaVars, volVars, portVars>>
    /\ UNCHANGED <<blendVars, softVars, gateVars, finVars>>

NextWindow == ApplyVolTargetingToBoth \/ ComputeInverseVolWeightsOfBoth

SpecWindow == InitWindow /\ [][NextWindow]_vars

\* The trailing window of lookback rows ending at t, cut at the first row.
TrailingWindow(t) ==
    (IF t >= win_call.lookback THEN t - win_call.lookback + 1 ELSE 1)..t
SameWindow(t) == \A j \in TrailingWindow(t) : win_call.first[j] = win_call.second[j]
BothVolReturned == pc = "window_vol_returned"
BothWeightsReturned == pc = "window_weights_returned"

(***************************************************************************)
(* C32.  The leverage of date t and the weight row of date t depend only   *)
(* on the returns of the trailing window of lookback rows ending at t:     *)
(* two inputs that agree on that window, and differ in an earlier or a     *)
(* later row, give the same leverage and the same weights on t.            *)
(***************************************************************************)
C32_TrailingWindowOnly ==
    /\ BothVolReturned
          => \A t \in 1..Len(win_call.first) :
                SameWindow(t) => win_out.first[t].lev = win_out.second[t].lev
    /\ BothWeightsReturned
          => \A t \in 1..Len(win_call.first) :
                SameWindow(t) => win_out.first[t] = win_out.second[t]

\* A change of the first return under lookback 2: the leverage of date 2
\* moves, the leverage of date 3, a number above 0, does not.
C32_Witness ==
    /\ BothVolReturned
    /\ win_call.lookback = 2
    /\ Len(win_call.first) = 3
    /\ win_call.first[1] # win_call.second[1]
    /\ win_out.first[2].lev # win_out.second[2].lev
    /\ win_out.first[3].lev = win_out.second[3].lev
    /\ win_out.first[3].lev.kind = "num"
    /\ win_out.first[3].lev.v > 0
\* A change of the last row of a frame: the weights of the date before, not
\* all zero, stay; those of the last date move.
LaterRowLeavesWeights ==
    /\ BothWeightsReturned
    /\ win_call.lookback = 2
    /\ Len(win_call.first) = 3
    /\ win_call.first[3] # win_call.second[3]
    /\ win_out.first[2] = win_out.second[2]
    /\ ~IsZeroWeight(win_out.first[2].A)
    /\ win_out.first[3] # win_out.second[3]
====
